---- MODULE Spec2Model ----
(***************************************************************************)
(* Job URL analyzer: the /analyze endpoint, the analysis orchestrator, the *)
(* page fetcher and the profile store.                                     *)
(*                                                                         *)
(* The server runs on one asyncio event loop: the code between two awaits  *)
(* is atomic, so every action below is one stretch of code up to the await *)
(* at which another request may run.                                       *)
(***************************************************************************)
EXTENDS Integers, Sequences, FiniteSets, TLC

\* ---------------------------------------------------------------- bounds
\* Total number of /analyze requests served in a behaviour (= UUIDs drawn).
MaxRequests == 2
\* Number of candidate follow-links found on a start page (the code keeps
\* at most three of them).
MaxLinks == 1
\* Number of fetch_page invocations made on the crawler under test.
MaxFetches == 3

\* Largest settings.MAX_CONCURRENT_REQUESTS a shared crawler is built with.
MaxConcurrent == 2
\* Largest settings.CRAWL_DELAY, in clock ticks, a shared crawler is built with.
MaxDelay == 2
\* Number of fetch_page calls made on the shared crawler.
MaxCalls == 3
\* Number of clock ticks that pass while the shared crawler is in use.
MaxTime == 3
\* Requests served one after the other by the endpoint under test.
MaxServed == 3
\* Number of a[href] links of a start page.
MaxFound == 4
\* Year mentions in a page text.
MaxMentions == 2
\* About/overview elements in a page.
MaxRegions == 2
\* City patterns in a page text.
MaxCities == 2

\* The request handlers that may be in flight at the same time.
Handlers == {1, 2}
\* The URLs a client may submit.
URLs == {"u1", "u2"}
\* The tasks that call fetch_page on the shared crawler, and the domains
\* (netloc of the URL) they fetch from.
Callers == {1, 2, 3}
Domains == {"d1", "d2"}
\* The start URL of a crawl_site call ("s") and the URLs its links lead to.
SiteURLs == {"s", "a", "b", "c", "x", "p", "n"}
\* The enrichment providers, in the order of EnrichmentManager.providers.
Providers == <<"crunchbase", "linkedin">>

\* ------------------------------------------------------------ values
\* Python values of a company data dict, tagged by type.
None == [t |-> "none"]
Str(s) == [t |-> "str", v |-> s]
Num(n) == [t |-> "num", v |-> n]
Lst(q) == [t |-> "list", v |-> q]

\* dict.get(key) and dict.get(key, default)
Get(d, k) == IF k \in DOMAIN d THEN d[k] ELSE None
GetOr(d, k, dflt) == IF k \in DOMAIN d THEN d[k] ELSE dflt

\* hashlib.sha256(source_url.encode()).hexdigest(): one digest per URL.
Sha256(u) == CASE u = "u1" -> "5f1c"
               [] u = "u2" -> "a09e"
               [] OTHER -> "0000"

\* ------------------------------------------------------------ state
VARIABLES
    store,      \* committed company_profiles rows
    pending,    \* per handler: profile rows flushed in its open transaction
    nextId,     \* number of UUIDs drawn so far
    pc,         \* per handler: position in analyze_job_url / analyze
    req,        \* per handler: the request and the profile_id drawn for it
    crawl,      \* per handler: crawl_site's locals and the crawler's caches
    lastFetch,  \* the crawler under test: its last fetch_page invocation
    work,       \* per handler: analyze's locals after the crawl
    stages,     \* per handler: the pipeline stages executed, in order
    outcome,    \* per handler: what the endpoint answered, and why
    returned,   \* per URL: the response of the first successful analyze
    session,    \* one WebCrawler shared by concurrent fetch_page callers
    site,       \* one crawl_site call: its locals and the fetches it made
    enrichment, \* the last enrich_company_data call: inputs and result
    applied,    \* the last call of a function without side effects
    txn         \* one /analyze request at a time and its database session

vars == <<store, pending, nextId, pc, req, crawl, lastFetch, work, stages,
          outcome, returned, session, site, enrichment, applied, txn>>

NoReq == [id |-> 0, url |-> "u1", force_refresh |-> FALSE,
          include_enrichment |-> FALSE, hadRow |-> FALSE]
NoCrawl == [robots |-> "absent", started |-> FALSE, links |-> 0, pages |-> 0]
\* crawl_site's locals are dead once analyze has consumed the pages.
CrawlOver == [NoCrawl EXCEPT !.started = TRUE]
NoFetch == [n |-> 0, readOk |-> TRUE, verdict |-> "allow", http |-> "ok",
            logFail |-> FALSE, parser |-> "absent",
            out |-> [result |-> "None", logs |-> 0, flags |-> {},
                     get |-> FALSE, stamped |-> FALSE, blocked |-> FALSE,
                     raised |-> FALSE]]
NoWork == [data |-> <<>>, sources |-> <<>>, errors |-> <<>>,
           completeness |-> 0, confidence |-> 0, report |-> ""]
NoOutcome == [status |-> 0, responses |-> 0, cause |-> "none",
              response |-> <<>>, rowsAdded |-> 0]
\* A caller that is not inside fetch_page.
NoCall == [pc |-> "idle", domain |-> "d1", wake |-> 0]
\* No entry in last_request_times.
NoTime == -1
\* Before WebCrawler.__init__: no semaphore, empty caches.
NoSession == [open |-> FALSE, limit |-> 0, delay |-> 0, value |-> 0,
              robots_cache |-> [d \in Domains |-> "absent"],
              reads |-> [d \in Domains |-> 0],
              last_request_times |-> [d \in Domains |-> NoTime],
              gets |-> [d \in Domains |-> <<>>],
              now |-> 0, calls |-> 0, lastEnd |-> "none",
              caller |-> [c \in Callers |-> NoCall]]
\* Before crawl_site is called.
NoSite == [pc |-> "idle", hrefs |-> <<>>, found |-> <<>>,
           additional_urls |-> <<>>, pages_content |-> <<>>,
           crawled_urls |-> {}, inflight |-> <<>>, fetched |-> <<>>,
           results |-> <<>>]
\* No function call under way.
\* No request yet: nothing written, nothing counted.
NoTxn == [pc |-> "idle", served |-> 0, cached |-> FALSE, fetches |-> 0,
          pages |-> 0, logged |-> 0, profiles |-> 0, stored_logs |-> 0,
          stored_profiles |-> 0, success |-> 0, error |-> 0, status |-> 0,
          cause |-> "none"]
NoApplied == [fn |-> "none"]
\* Before enrich_company_data is called.
NoEnrichment == [called |-> FALSE, providers |-> <<>>, company_data |-> <<>>,
                 applicable |-> <<>>, outcomes |-> <<>>, completion |-> <<>>,
                 out |-> [enriched_data |-> <<>>, enrichment_sources |-> <<>>,
                          enrichment_errors |-> <<>>, invoked |-> <<>>,
                          timed_out |-> FALSE, raised |-> FALSE]]

Init ==
    /\ store = {}
    /\ pending = [h \in Handlers |-> {}]
    /\ nextId = 0
    /\ pc = [h \in Handlers |-> "idle"]
    /\ req = [h \in Handlers |-> NoReq]
    /\ crawl = [h \in Handlers |-> NoCrawl]
    /\ lastFetch = NoFetch
    /\ work = [h \in Handlers |-> NoWork]
    /\ stages = [h \in Handlers |-> <<>>]
    /\ outcome = [h \in Handlers |-> NoOutcome]
    /\ returned = [u \in URLs |-> <<>>]
    /\ session = NoSession
    /\ site = NoSite
    /\ enrichment = NoEnrichment
    /\ applied = NoApplied
    /\ txn = NoTxn

\* ------------------------------------------------------ the profile store
\* The rows a handler's session reads: committed rows and its own flushed rows.
Visible(h) == store \cup pending[h]

\* The column without its unique index.
UniqueViolationOff(h, url_hash) == FALSE

\* CompanyProfileDB.source_url_hash is unique=True: the INSERT of a row is
\* rejected when a row with the same hash is already there.
UniqueViolation(h, url_hash) ==
    \E p \in Visible(h) : p.source_url_hash = url_hash

\* An INSERT of a key that another open transaction has inserted waits for
\* that transaction to commit or roll back.
InsertWaits(h, url_hash) ==
    \E g \in Handlers \ {h} : \E p \in pending[g] : p.source_url_hash = url_hash

\* A rollback that leaves the flushed rows behind.
RolledBackKeeps(h) == store \cup pending[h]

\* get_db_session, `except: await session.rollback()`: the committed rows
\* after the rollback of the handler's transaction.
RolledBack(h) == store

\* A lookup that never finds the stored row.
_get_existing_profile_miss(h, source_url) == [kind |-> "none"]

\* JobAnalysisOrchestrator._get_existing_profile: the rows with the URL's
\* hash; scalar_one_or_none answers None, the row, or raises on several rows.
_get_existing_profile(h, source_url) ==
    LET url_hash == Sha256(source_url)
        rows == {p \in Visible(h) : p.source_url_hash = url_hash}
    IN  IF rows = {} THEN [kind |-> "none"]
        ELSE IF Cardinality(rows) = 1
             THEN [kind |-> "row", row |-> CHOOSE p \in rows : TRUE]
             ELSE [kind |-> "raise"]

\* --------------------------------------------------------------- scoring
\* Python truthiness of a value.
Truthy(v) == CASE v.t = "none" -> FALSE
               [] v.t = "str" -> v.v # ""
               [] v.t = "num" -> v.v # 0
               [] v.t = "list" -> Len(v.v) > 0

\* str.strip() leaves something
NonBlank(s) == s \notin {"", " "}

\* field_weights of _calculate_completeness_score, in hundredths.
FieldWeights ==
    [name |-> 20, description |-> 15, industry |-> 10, website |-> 10,
     employee_count |-> 10, employee_count_range |-> 5, funding_stage |-> 5,
     headquarters |-> 10, linkedin_url |-> 5, founded_year |-> 5,
     tech_stack |-> 5]

\* A test that takes every value but None as achieved.
AchievedNotNone(v) == v.t # "none"

\* `if value is not None` and the three isinstance tests of the loop.
Achieved(v) == CASE v.t = "none" -> FALSE
                 [] v.t = "str" -> NonBlank(v.v)
                 [] v.t = "num" -> v.v > 0
                 [] v.t = "list" -> Len(v.v) > 0

RECURSIVE SumWeights(_, _)
SumWeights(S, d) ==
    IF S = {} THEN 0
    ELSE LET f == CHOOSE x \in S : TRUE
         IN  (IF Achieved(Get(d, f)) THEN FieldWeights[f] ELSE 0)
             + SumWeights(S \ {f}, d)

RECURSIVE TotalWeight(_)
TotalWeight(S) ==
    IF S = {} THEN 0
    ELSE LET f == CHOOSE x \in S : TRUE
         IN  FieldWeights[f] + TotalWeight(S \ {f})

\* A score over the weight of the fields that the record holds.
_calculate_completeness_score_present(company_data) ==
    LET total_weight == TotalWeight(DOMAIN FieldWeights \cap DOMAIN company_data)
        achieved_weight == SumWeights(DOMAIN FieldWeights, company_data)
    IN  IF total_weight > 0 THEN (achieved_weight * 100) \div total_weight ELSE 0

\* _calculate_completeness_score, in hundredths.
_calculate_completeness_score(company_data) ==
    LET total_weight == TotalWeight(DOMAIN FieldWeights)
        achieved_weight == SumWeights(DOMAIN FieldWeights, company_data)
    IN  IF total_weight > 0 THEN (achieved_weight * 100) \div total_weight ELSE 0

Min(a, b) == IF a < b THEN a ELSE b

\* A richness boost without its cap.
richness_boost_uncapped(company_data) ==
    Cardinality({k \in DOMAIN company_data : company_data[k] # None}) * 2

\* richness_boost of _calculate_confidence_score, in hundredths.
richness_boost(company_data) ==
    LET field_count ==
            Cardinality({k \in DOMAIN company_data : company_data[k] # None})
    IN  Min(20, field_count * 2)

\* enrichment_boost of _calculate_confidence_score, in hundredths.
enrichment_boost(enrichment_sources) == Min(20, Len(enrichment_sources) * 10)

\* _calculate_confidence_score, in hundredths.
_calculate_confidence_score(company_data, enrichment_sources) ==
    LET base_confidence == 60
        total_confidence == base_confidence + richness_boost(company_data)
                            + enrichment_boost(enrichment_sources)
    IN  Min(100, total_confidence)

\* ---------------------------------------------------------------- report
AnyTruthy(d, fields) == \E f \in fields : Truthy(Get(d, f))

\* The lines of a report: the title, a section heading, a line of content,
\* an empty line, the rule of the footer.
H1 == [kind |-> "h1", text |-> "Company Analysis Report"]
H2(text) == [kind |-> "h2", text |-> text]
Line(text) == [kind |-> "line", text |-> text]
Blank == [kind |-> "blank", text |-> ""]
Rule == [kind |-> "rule", text |-> "---"]

\* A line that is appended when the field is truthy.
LineIf(company_data, field, text) ==
    IF Truthy(Get(company_data, field)) THEN <<Line(text)>> ELSE <<>>

\* One "- item" line for each element of a list.
Bullets(items) == [i \in DOMAIN items |-> Line("- item")]

\* A renderer that emits the heading before each of the three subsections.
TechCultureHeadingAlways(tech_culture_added) == <<H2("Technology & Culture")>>

\* `if not tech_culture_added: report_sections.append(...)`
TechCultureHeading(tech_culture_added) ==
    IF ~tech_culture_added THEN <<H2("Technology & Culture")>> ELSE <<>>

\* generate_report, `# Company Overview`
OverviewSection(company_data) ==
    IF AnyTruthy(company_data, {"description", "industry", "founded_year"})
    THEN LET overview_items ==
                 LineIf(company_data, "industry", "Industry")
                 \o LineIf(company_data, "founded_year", "Founded")
                 \o LineIf(company_data, "website", "Website")
         IN  <<H2("Company Overview")>>
             \o (IF Truthy(Get(company_data, "description"))
                 THEN <<Line("Description"), Blank>> ELSE <<>>)
             \o (IF overview_items # <<>>
                 THEN overview_items \o <<Blank>> ELSE <<>>)
    ELSE <<>>

\* generate_report, `# Size and Funding`
SizeSection(company_data) ==
    IF AnyTruthy(company_data, {"employee_count", "employee_count_range",
                                "funding_stage", "total_funding"})
    THEN <<H2("Size & Funding")>>
         \o (IF Truthy(Get(company_data, "employee_count"))
             THEN <<Line("Employee Count")>>
             ELSE LineIf(company_data, "employee_count_range", "Employee Range"))
         \o LineIf(company_data, "funding_stage", "Funding Stage")
         \o LineIf(company_data, "total_funding", "Total Funding")
         \o <<Blank>>
    ELSE <<>>

\* generate_report, `# Location`
LocationSection(company_data) ==
    IF AnyTruthy(company_data, {"headquarters", "locations"})
    THEN <<H2("Location")>>
         \o LineIf(company_data, "headquarters", "Headquarters")
         \o (IF Truthy(Get(company_data, "locations"))
             THEN <<Line("Other Locations")>>
                  \o Bullets(company_data["locations"].v)
             ELSE <<>>)
         \o <<Blank>>
    ELSE <<>>

\* generate_report, `# Technology & Culture`: three subsections, the
\* heading before the first of them that is there.
TechCultureSection(company_data) ==
    LET tech == Truthy(Get(company_data, "tech_stack"))
        benefits == Truthy(Get(company_data, "benefits"))
        culture == Truthy(Get(company_data, "culture_keywords"))
    IN  (IF tech
         THEN TechCultureHeading(FALSE) \o <<Line("Technology Stack")>>
              \o Bullets(company_data["tech_stack"].v) \o <<Blank>>
         ELSE <<>>)
        \o (IF benefits
            THEN TechCultureHeading(tech) \o <<Line("Benefits & Perks")>>
                 \o Bullets(company_data["benefits"].v) \o <<Blank>>
            ELSE <<>>)
        \o (IF culture
            THEN TechCultureHeading(tech \/ benefits)
                 \o <<Line("Culture Keywords"), Line("tags"), Blank>>
            ELSE <<>>)

\* generate_report, `# Social Presence`
SocialSection(company_data) ==
    IF AnyTruthy(company_data, {"linkedin_url", "twitter_url"})
    THEN <<H2("Social Presence")>>
         \o LineIf(company_data, "linkedin_url", "LinkedIn")
         \o LineIf(company_data, "twitter_url", "Twitter")
         \o <<Blank>>
    ELSE <<>>

\* generate_report, `# Analysis Quality`
QualitySection(enrichment_sources, enrichment_errors) ==
    <<H2("Analysis Quality"), Line("Data Completeness"),
      Line("Confidence Score")>>
    \o (IF enrichment_sources # <<>>
        THEN <<Line("Enrichment Sources")>> ELSE <<>>)
    \o (IF enrichment_errors # <<>>
        THEN <<Line("Enrichment Issues")>> \o Bullets(enrichment_errors)
        ELSE <<>>)
    \o <<Blank>>

\* ReportGenerator.generate_report: report_sections before the join.
report_sections(company_data, completeness_score, confidence_score, enrichment_sources, enrichment_errors) ==
    <<H1, Line("Generated on"), Blank>>
    \o <<H2("Executive Summary"), Line("summary"), Blank>>
    \o OverviewSection(company_data)
    \o SizeSection(company_data)
    \o LocationSection(company_data)
    \o TechCultureSection(company_data)
    \o SocialSection(company_data)
    \o QualitySection(enrichment_sources, enrichment_errors)
    \o <<Rule, Line("generated automatically")>>

\* The title, the section headings and the footer of a report, in the
\* order they stand in it.
Outline(lines) ==
    LET Marks(l) == l.kind \in {"h1", "h2", "rule"}
        marks == SelectSeq(lines, Marks)
    IN  [i \in DOMAIN marks |->
            CASE marks[i].kind = "h1" -> "header"
              [] marks[i].kind = "rule" -> "footer"
              [] OTHER -> marks[i].text]

\* ReportGenerator.generate_report: the report, by the order of its parts.
generate_report(company_data, completeness_score, confidence_score, enrichment_sources, enrichment_errors) ==
    Outline(report_sections(company_data, completeness_score, confidence_score, enrichment_sources, enrichment_errors))

\* ------------------------------------------------------- rows, responses
\* The CompanyProfileDB row that _save_profile builds.
ProfileRow(profile_id, source_url, company_data, completeness_score, confidence_score, enrichment_sources, enrichment_errors, markdown_report, include_enrichment) ==
    [id |-> profile_id,
     source_url |-> source_url,
     source_url_hash |-> Sha256(source_url),
     company_name |-> Get(company_data, "name"),
     company_description |-> Get(company_data, "description"),
     industry |-> Get(company_data, "industry"),
     website |-> Get(company_data, "website"),
     employee_count |-> Get(company_data, "employee_count"),
     employee_count_range |-> Get(company_data, "employee_count_range"),
     funding_stage |-> Get(company_data, "funding_stage"),
     total_funding |-> Get(company_data, "total_funding"),
     headquarters |-> Get(company_data, "headquarters"),
     linkedin_url |-> Get(company_data, "linkedin_url"),
     twitter_url |-> Get(company_data, "twitter_url"),
     logo_url |-> Get(company_data, "logo_url"),
     founded_year |-> Get(company_data, "founded_year"),
     completeness_score |-> completeness_score,
     confidence_score |-> confidence_score,
     enrichment_enabled |-> include_enrichment,
     enrichment_complete |-> Len(enrichment_sources) > 0,
     locations |-> GetOr(company_data, "locations", Lst(<<>>)),
     tech_stack |-> GetOr(company_data, "tech_stack", Lst(<<>>)),
     benefits |-> GetOr(company_data, "benefits", Lst(<<>>)),
     culture_keywords |-> GetOr(company_data, "culture_keywords", Lst(<<>>)),
     enrichment_sources |-> enrichment_sources,
     enrichment_errors |-> enrichment_errors,
     markdown_report |-> markdown_report]

\* JobAnalysisOrchestrator._profile_to_response
_profile_to_response(profile) ==
    [profile_id |-> profile.id,
     source_url |-> profile.source_url,
     company_profile |->
        [name |-> profile.company_name,
         description |-> profile.company_description,
         industry |-> profile.industry,
         website |-> profile.website,
         employee_count |-> profile.employee_count,
         employee_count_range |-> profile.employee_count_range,
         funding_stage |-> profile.funding_stage,
         total_funding |-> profile.total_funding,
         headquarters |-> profile.headquarters,
         locations |-> profile.locations.v,
         tech_stack |-> profile.tech_stack.v,
         benefits |-> profile.benefits.v,
         culture_keywords |-> profile.culture_keywords.v,
         linkedin_url |-> profile.linkedin_url,
         twitter_url |-> profile.twitter_url,
         logo_url |-> profile.logo_url,
         founded_year |-> profile.founded_year],
     completeness_score |-> profile.completeness_score,
     confidence_score |-> profile.confidence_score,
     enrichment_sources |-> profile.enrichment_sources,
     enrichment_errors |-> profile.enrichment_errors,
     markdown_report |-> profile.markdown_report]

\* --------------------------------------------------------------- crawler
\* settings.RESPECT_ROBOTS_TXT
RESPECT_ROBOTS_TXT == TRUE
\* max_pages passed by analyze to crawl_site
max_pages == 3

\* What the site answers to a GET: a 2xx with a body, a 2xx with an empty
\* body, another status, a transport error, a timeout.
HttpOutcomes == {"ok", "ok_empty", "non2xx", "transport", "timeout"}
\* What can_fetch answers for the URL.
Verdicts == {"allow", "deny", "raise"}

\* WebCrawler._get_robots_parser: the cache entry of the domain after the
\* call.  readOk: whether parser.read(robots_url) returned normally.
_get_robots_parser(cache, readOk) ==
    IF ~RESPECT_ROBOTS_TXT THEN cache
    ELSE IF cache = "absent"
         THEN (IF readOk THEN "loaded" ELSE "fallback")
         ELSE cache

\* can_fetch of the cached parser.  A parser that read robots.txt answers by
\* its rules.  The fallback parser is a fresh AsyncRobotFileParser with
\* disallow_all = False that never read a file: what it answers is decided
\* by the aiohttp_robotparser library, so both answers are possible.
CanFetchAnswers(parser) ==
    IF parser = "fallback" THEN {"allow", "deny"} ELSE Verdicts

\* A robots check that lets every URL through.
_is_allowed_by_robots_ignored(verdict) == "allow"

\* WebCrawler._is_allowed_by_robots
_is_allowed_by_robots(verdict) ==
    IF ~RESPECT_ROBOTS_TXT THEN "allow" ELSE verdict

\* _log_crawl_result without its try/except.
_log_crawl_result_raises(logFail) ==
    [added |-> IF logFail THEN 0 ELSE 1, raised |-> logFail]

\* WebCrawler._log_crawl_result: the number of crawl_logs rows it adds and
\* whether it raises.  logFail: the add/flush of the row fails; the except
\* clause logs the failure and swallows it.
_log_crawl_result(logFail) ==
    [added |-> IF logFail THEN 0 ELSE 1, raised |-> FALSE]

\* The robots_txt_allowed values of the rows a fetch_page call added.
LoggedFlags(added, robots_allowed) == IF added > 0 THEN {robots_allowed} ELSE {}

\* WebCrawler.fetch_page.  result: "None", "body" (non-empty text) or
\* "empty" (empty text); logs: crawl_logs rows added, flags: their
\* robots_txt_allowed values; get: the GET was issued; stamped:
\* _respect_crawl_delay ran and set last_request_times of the domain;
\* blocked: ROBOTS_TXT_BLOCKS incremented; raised: an exception leaves
\* fetch_page.
fetch_page(verdict, http, logFail) ==
    LET log == _log_crawl_result(logFail)
        allowed == _is_allowed_by_robots(verdict)
    IN  IF allowed = "deny" THEN
            \* robots denial: one log call, return None
            [result |-> "None", logs |-> log.added,
             flags |-> LoggedFlags(log.added, FALSE), get |-> FALSE,
             stamped |-> FALSE, blocked |-> TRUE, raised |-> log.raised]
        ELSE IF allowed = "raise" THEN
            \* the robots check raised: except branch, one log call
            [result |-> "None", logs |-> log.added,
             flags |-> LoggedFlags(log.added, TRUE), get |-> FALSE,
             stamped |-> FALSE, blocked |-> FALSE, raised |-> log.raised]
        ELSE IF http \in {"transport", "timeout"} THEN
            \* client.get raised: except branch, one log call
            [result |-> "None", logs |-> log.added,
             flags |-> LoggedFlags(log.added, TRUE), get |-> TRUE,
             stamped |-> TRUE, blocked |-> FALSE, raised |-> log.raised]
        ELSE IF http = "non2xx" THEN
            \* the response is logged, raise_for_status raises, and the
            \* except branch logs the error
            [result |-> "None", logs |-> log.added + log.added,
             flags |-> LoggedFlags(log.added, TRUE), get |-> TRUE,
             stamped |-> TRUE, blocked |-> FALSE, raised |-> log.raised]
        ELSE
            \* 2xx: the response is logged and response.text returned
            [result |-> IF http = "ok" THEN "body" ELSE "empty",
             logs |-> log.added, flags |-> LoggedFlags(log.added, TRUE),
             get |-> TRUE, stamped |-> TRUE, blocked |-> FALSE,
             raised |-> log.raised]

\* Everything a fetch_page invocation can do when the cached parser of the
\* domain is `parser`.
FetchResults(parser) ==
    {fetch_page(verdict, http, logFail) :
        verdict \in CanFetchAnswers(parser), http \in HttpOutcomes,
        logFail \in BOOLEAN}

\* `if content:` of crawl_site
HasContent(result) == result = "body"

\* ------------------------------------------------- extraction, enrichment
\* A merge in which the last page wins.
MergePageLastWins(extracted_data, page_data) ==
    [k \in DOMAIN extracted_data \cup DOMAIN page_data |->
        IF k \in DOMAIN page_data THEN page_data[k] ELSE extracted_data[k]]

\* One step of analyze's merge loop: a page's value is taken when it is not
\* None and the key is not yet set (or set to None).
MergePage(extracted_data, page_data) ==
    [k \in DOMAIN extracted_data \cup
           {j \in DOMAIN page_data : page_data[j] # None} |->
        IF /\ k \in DOMAIN page_data
           /\ page_data[k] # None
           /\ (k \notin DOMAIN extracted_data \/ extracted_data[k] = None)
        THEN page_data[k]
        ELSE extracted_data[k]]

RECURSIVE MergePages(_, _)
MergePages(extracted_data, pages) ==
    IF pages = <<>> THEN extracted_data
    ELSE MergePages(MergePage(extracted_data, Head(pages)), Tail(pages))

\* What extract_info returns for the i-th crawled page of a site (None
\* values are already removed; website is always the base URL).  The start
\* page names the company, the linked pages describe it.
PageRecord(url, i) ==
    IF i = 1
    THEN [name |-> Str("Acme"), website |-> Str(url),
          tech_stack |-> Lst(<<"Python">>)]
    ELSE [name |-> Str("About Acme"), website |-> Str(url),
          industry |-> Str("Fintech"), locations |-> Lst(<<>>)]

\* The provider results that asyncio.gather hands to enrich_company_data
\* (an empty sequence after the deadline).
ProviderResults ==
    { <<>>,
      << [kind |-> "exc", provider |-> "crunchbase", msg |-> Str("boom"),
          data |-> <<>>],
         [kind |-> "ok", provider |-> "linkedin", msg |-> None,
          data |-> [employee_count |-> Num(50), industry |-> None,
                    name |-> Str("Acme Inc")]] >> }

\* A merge in which every value of the provider overwrites, None included.
MergeEnrichedOverwrite(enriched_data, data) ==
    [k \in DOMAIN enriched_data \cup DOMAIN data |->
        IF k \in DOMAIN data THEN data[k] ELSE enriched_data[k]]

\* The merge of one successful provider result: non-None values overwrite.
MergeEnriched(enriched_data, data) ==
    [k \in DOMAIN enriched_data \cup {j \in DOMAIN data : data[j] # None} |->
        IF k \in DOMAIN data /\ data[k] # None THEN data[k]
        ELSE enriched_data[k]]

\* EnrichmentManager.enrich_company_data, one round of the loop over the
\* results after the other.
RECURSIVE ProcessResults(_, _)
ProcessResults(acc, results) ==
    IF results = <<>> THEN acc
    ELSE LET result == Head(results)
             next ==
               IF result.kind = "exc" THEN
                   [acc EXCEPT !.enrichment_errors =
                        Append(@, <<result.provider, result.msg.v>>)]
               ELSE IF result.kind = "ok" THEN
                   [acc EXCEPT !.enriched_data = MergeEnriched(@, result.data),
                               !.enrichment_sources = Append(@, result.provider)]
               ELSE IF Truthy(result.msg) THEN
                   [acc EXCEPT !.enrichment_errors =
                        Append(@, <<result.provider, result.msg.v>>)]
               ELSE acc
         IN  ProcessResults(next, Tail(results))

\* EnrichmentManager.enrich_company_data from `# Process results` on: what
\* it returns for the results that the gather handed over.
enrich_company_data(company_data, results) ==
    ProcessResults([enriched_data |-> company_data,
                    enrichment_sources |-> <<>>,
                    enrichment_errors |-> <<>>], results)

\* ------------------------------------------------------------ the endpoint
\* An endpoint that answers a fault with a degraded success.
FailDegraded(h, cause) ==
    /\ store' = RolledBack(h)
    /\ pending' = [pending EXCEPT ![h] = {}]
    /\ UNCHANGED returned
    /\ pc' = [pc EXCEPT ![h] = "done"]
    /\ outcome' = [outcome EXCEPT ![h] =
            [status |-> 200, responses |-> @.responses + 1, cause |-> cause,
             response |-> <<>>, rowsAdded |-> 0]]

\* An exception leaves analyze: get_db_session rolls the transaction back
\* and analyze_job_url raises HTTPException(500).
Fail(h, cause) ==
    /\ store' = RolledBack(h)
    /\ pending' = [pending EXCEPT ![h] = {}]
    /\ UNCHANGED returned
    /\ pc' = [pc EXCEPT ![h] = "done"]
    /\ outcome' = [outcome EXCEPT ![h] =
            [status |-> 500, responses |-> @.responses + 1, cause |-> cause,
             response |-> <<>>, rowsAdded |-> 0]]

\* A cache that serves a row only to a request with the enrichment flag the
\* row was produced with.
CacheHitSameFlag(existing_profile, include_enrichment) ==
    /\ existing_profile.kind = "row"
    /\ existing_profile.row.enrichment_enabled = include_enrichment

\* `if existing_profile:` of analyze: the stored row is returned, whatever
\* request.include_enrichment is.
CacheHit(existing_profile, include_enrichment) ==
    existing_profile.kind = "row"

\* Scheduling.  Between its lookup and its flush a request works on its own
\* crawler, its own locals and its own (empty) transaction only, and when it
\* is done it only hands its answer to the framework.  These steps commute
\* with every step of the other requests, so the model runs them without
\* interleaving: a handler is scheduled only while no other handler is in
\* the middle of such a stretch.  The interleavings that matter, those of the
\* lookups, the flushes and the commits, are all kept.
OwnSteps == {"crawl", "crawled", "enrich", "score", "done"}
Quiet(h) == \A g \in Handlers \ {h} : pc[g] \notin OwnSteps

\* POST /analyze: analyze_job_url opens a session, analyze draws the
\* profile_id and, unless force_refresh, looks the URL up.  The handlers
\* are interchangeable: a request takes the first free one.
Analyze(h, url, force_refresh, include_enrichment, fault) ==
    /\ Quiet(h)
    /\ pc[h] = "idle"
    /\ \A g \in Handlers : g < h => pc[g] # "idle"
    /\ nextId < MaxRequests
    /\ nextId' = nextId + 1
    /\ req' = [req EXCEPT ![h] =
            [id |-> nextId + 1, url |-> url, force_refresh |-> force_refresh,
             include_enrichment |-> include_enrichment,
             hadRow |-> \E p \in store : p.source_url = url]]
    /\ UNCHANGED <<crawl, lastFetch, session, site, enrichment, applied, work, txn>>
    /\ IF force_refresh THEN
            /\ pc' = [pc EXCEPT ![h] = "crawl"]
            /\ stages' = [stages EXCEPT ![h] = <<>>]
            /\ outcome' = [outcome EXCEPT ![h] = NoOutcome]
            /\ UNCHANGED <<store, pending, returned>>
       ELSE LET existing_profile == _get_existing_profile(h, url)
            IN  IF fault \/ existing_profile.kind = "raise" THEN
                    /\ stages' = [stages EXCEPT ![h] = <<>>]
                    /\ Fail(h, "lookup")
                ELSE IF CacheHit(existing_profile, include_enrichment) THEN
                    /\ pc' = [pc EXCEPT ![h] = "commit"]
                    /\ stages' = [stages EXCEPT ![h] = <<"Lookup", "Respond">>]
                    /\ outcome' = [outcome EXCEPT ![h] =
                          [NoOutcome EXCEPT !.response =
                              _profile_to_response(existing_profile.row)]]
                    /\ UNCHANGED <<store, pending, returned>>
                ELSE
                    /\ pc' = [pc EXCEPT ![h] = "crawl"]
                    /\ stages' = [stages EXCEPT ![h] = <<"Lookup">>]
                    /\ outcome' = [outcome EXCEPT ![h] = NoOutcome]
                    /\ UNCHANGED <<store, pending, returned>>

\* crawl_site: the fetch of the start URL.  links: the number of candidate
\* links _extract_additional_urls finds in the page.
FetchStartPage(h, readOk, f, links) ==
    /\ Quiet(h)
    /\ pc[h] = "crawl"
    /\ ~crawl[h].started
    /\ LET parser == _get_robots_parser(crawl[h].robots, readOk)
           pages == IF HasContent(f.result) THEN 1 ELSE 0
           more == HasContent(f.result) /\ pages < max_pages /\ links > 0
       IN  /\ f \in FetchResults(parser)
           /\ IF f.raised THEN
                  /\ Fail(h, "crawl")
                  /\ crawl' = [crawl EXCEPT ![h] = CrawlOver]
              ELSE
                  /\ crawl' = [crawl EXCEPT ![h] =
                        IF more
                        THEN [robots |-> parser, started |-> TRUE,
                              links |-> links, pages |-> pages]
                        ELSE [CrawlOver EXCEPT !.pages = pages]]
                  /\ pc' = [pc EXCEPT ![h] = IF more THEN "crawl" ELSE "crawled"]
                  /\ UNCHANGED <<store, pending, outcome, returned>>
    /\ UNCHANGED <<nextId, req, lastFetch, session, site, enrichment, applied, work, stages, txn>>

\* crawl_site: the fetch of the next candidate link.
FetchLink(h, f) ==
    /\ Quiet(h)
    /\ pc[h] = "crawl"
    /\ crawl[h].started
    /\ crawl[h].links > 0
    /\ LET parser == _get_robots_parser(crawl[h].robots, TRUE)
           pages == crawl[h].pages + (IF HasContent(f.result) THEN 1 ELSE 0)
           more == crawl[h].links > 1 /\ pages < max_pages
       IN  /\ f \in FetchResults(parser)
           /\ IF f.raised THEN
                  /\ Fail(h, "crawl")
                  /\ crawl' = [crawl EXCEPT ![h] = CrawlOver]
              ELSE
                  /\ crawl' = [crawl EXCEPT ![h] =
                        IF more
                        THEN [@ EXCEPT !.links = @ - 1, !.pages = pages]
                        ELSE [CrawlOver EXCEPT !.pages = pages]]
                  /\ pc' = [pc EXCEPT ![h] = IF more THEN "crawl" ELSE "crawled"]
                  /\ UNCHANGED <<store, pending, outcome, returned>>
    /\ UNCHANGED <<nextId, req, lastFetch, session, site, enrichment, applied, work, stages, txn>>

\* analyze without the zero-pages check.
NothingCrawledOff(pages_content) == FALSE

\* `if not pages_content` of analyze
NothingCrawled(pages_content) == Len(pages_content) = 0

\* An analyze that enriches whatever the request says.
AfterExtractAlways(include_enrichment) == "enrich"

\* `if request.include_enrichment` of analyze: the stage after Extract.
AfterExtract(include_enrichment) ==
    IF include_enrichment THEN "enrich" ELSE "score"

\* analyze after the crawl: the zero-pages check and the Extract stage.
\* pages: what extract_info returns for each crawled page.
Extract(h, pages, fault) ==
    /\ Quiet(h)
    /\ pc[h] = "crawled"
    /\ pages = [i \in 1..crawl[h].pages |-> PageRecord(req[h].url, i)]
    /\ crawl' = [crawl EXCEPT ![h] = CrawlOver]
    /\ IF NothingCrawled(pages) THEN
            /\ Fail(h, "zero_content")
            /\ UNCHANGED <<work, stages>>
       ELSE IF fault THEN
            /\ Fail(h, "extract")
            /\ stages' = [stages EXCEPT ![h] = Append(@, "Crawl")]
            /\ UNCHANGED work
       ELSE
            /\ work' = [work EXCEPT ![h].data = MergePages(<<>>, pages)]
            /\ stages' = [stages EXCEPT ![h] = @ \o <<"Crawl", "Extract">>]
            /\ pc' = [pc EXCEPT ![h] =
                  AfterExtract(req[h].include_enrichment)]
            /\ UNCHANGED <<store, pending, outcome, returned>>
    /\ UNCHANGED <<nextId, req, lastFetch, session, site, enrichment, applied, txn>>

\* analyze, Step 3: the Enrich stage (only when include_enrichment).
\* results: what the providers returned; fault: the manager itself raises.
Enrich(h, results, fault) ==
    /\ Quiet(h)
    /\ pc[h] = "enrich"
    /\ IF fault THEN
            /\ Fail(h, "enrich")
            /\ work' = [work EXCEPT ![h] = NoWork]
            /\ UNCHANGED stages
       ELSE LET enrichment_result == enrich_company_data(work[h].data, results)
            IN  /\ work' = [work EXCEPT
                      ![h].data = enrichment_result.enriched_data,
                      ![h].sources = enrichment_result.enrichment_sources,
                      ![h].errors = enrichment_result.enrichment_errors]
                /\ stages' = [stages EXCEPT ![h] = Append(@, "Enrich")]
                /\ pc' = [pc EXCEPT ![h] = "score"]
                /\ UNCHANGED <<store, pending, outcome, returned>>
    /\ UNCHANGED <<nextId, req, crawl, lastFetch, session, site, enrichment, applied, txn>>

\* An analyze that returns after the report, without _save_profile.
AfterReportReturns == "commit"

\* analyze after Step 5: Step 6, _save_profile.
AfterReport == "persist"

\* analyze, Steps 4 and 5: the Score and Report stages.  No await lies
\* between them (generate_report never suspends), so they are one step.
\* fault: the stage that raises, if any.
ScoreReport(h, fault) ==
    /\ Quiet(h)
    /\ pc[h] = "score"
    /\ LET completeness_score == _calculate_completeness_score(work[h].data)
           confidence_score ==
               _calculate_confidence_score(work[h].data, work[h].sources)
           markdown_report ==
               generate_report(work[h].data, completeness_score,
                               confidence_score, work[h].sources,
                               work[h].errors)
       IN  IF fault = "score" THEN
                /\ Fail(h, "score")
                /\ work' = [work EXCEPT ![h] = NoWork]
                /\ UNCHANGED stages
           ELSE IF fault = "report" THEN
                /\ Fail(h, "report")
                /\ work' = [work EXCEPT ![h] = NoWork]
                /\ stages' = [stages EXCEPT ![h] = Append(@, "Score")]
           ELSE
                /\ work' = [work EXCEPT ![h].completeness = completeness_score,
                                        ![h].confidence = confidence_score,
                                        ![h].report = markdown_report]
                /\ stages' = [stages EXCEPT ![h] = @ \o <<"Score", "Report">>]
                /\ pc' = [pc EXCEPT ![h] = AfterReport]
                /\ UNCHANGED <<store, pending, outcome, returned>>
    /\ UNCHANGED <<nextId, req, crawl, lastFetch, session, site, enrichment, applied, txn>>

\* analyze, Step 6: _save_profile adds the row and flushes, and the row is
\* projected into the response.  fault: the flush fails for another reason
\* than the unique index.
Persist(h, fault) ==
    /\ Quiet(h)
    /\ pc[h] = "persist"
    /\ LET profile == ProfileRow(req[h].id, req[h].url, work[h].data,
                                 work[h].completeness, work[h].confidence,
                                 work[h].sources, work[h].errors,
                                 work[h].report, req[h].include_enrichment)
       IN  /\ fault \/ ~InsertWaits(h, profile.source_url_hash)
           /\ IF fault THEN
                  /\ Fail(h, "persist")
                  /\ UNCHANGED stages
              ELSE IF UniqueViolation(h, profile.source_url_hash) THEN
                  /\ Fail(h, "unique")
                  /\ UNCHANGED stages
              ELSE
                  /\ pending' = [pending EXCEPT ![h] = @ \cup {profile}]
                  /\ stages' = [stages EXCEPT ![h] = @ \o <<"Persist", "Respond">>]
                  /\ outcome' = [outcome EXCEPT ![h].response =
                        _profile_to_response(profile)]
                  /\ pc' = [pc EXCEPT ![h] = "commit"]
                  /\ UNCHANGED <<store, returned>>
    /\ work' = [work EXCEPT ![h] = NoWork]
    /\ UNCHANGED <<nextId, req, crawl, lastFetch, session, site, enrichment, applied, txn>>

\* get_db_session after analyze returned: commit, and the endpoint answers
\* with the response; a failing commit is rolled back and answered with 500.
Commit(h, fault) ==
    /\ Quiet(h)
    /\ pc[h] = "commit"
    /\ IF fault THEN
            /\ Fail(h, "commit")
       ELSE
            /\ store' = store \cup pending[h]
            /\ pending' = [pending EXCEPT ![h] = {}]
            /\ pc' = [pc EXCEPT ![h] = "done"]
            /\ outcome' = [outcome EXCEPT
                  ![h].status = 200,
                  ![h].responses = @ + 1,
                  ![h].rowsAdded = Cardinality(pending[h])]
            /\ returned' = [returned EXCEPT ![req[h].url] =
                  IF @ = <<>> THEN outcome[h].response ELSE @]
    /\ UNCHANGED <<nextId, req, crawl, lastFetch, session, site, enrichment, applied, work, stages, txn>>

\* The request is over: the handler is free for the next request.
Finish(h) ==
    /\ Quiet(h)
    /\ pc[h] = "done"
    /\ pc' = [pc EXCEPT ![h] = "idle"]
    /\ req' = [req EXCEPT ![h] = NoReq]
    /\ crawl' = [crawl EXCEPT ![h] = NoCrawl]
    /\ stages' = [stages EXCEPT ![h] = <<>>]
    /\ outcome' = [outcome EXCEPT ![h] = NoOutcome]
    /\ UNCHANGED <<store, pending, nextId, lastFetch, session, site, enrichment, applied, work, returned, txn>>

Next ==
    \/ \E h \in Handlers, url \in URLs, force_refresh \in BOOLEAN,
          include_enrichment \in BOOLEAN, fault \in BOOLEAN :
            Analyze(h, url, force_refresh, include_enrichment, fault)
    \/ \E h \in Handlers, readOk \in BOOLEAN, links \in 0..MaxLinks :
          \E f \in FetchResults(_get_robots_parser(crawl[h].robots, readOk)) :
            FetchStartPage(h, readOk, f, links)
    \/ \E h \in Handlers :
          \E f \in FetchResults(crawl[h].robots) : FetchLink(h, f)
    \/ \E h \in Handlers, fault \in BOOLEAN :
          \E pages \in {[i \in 1..crawl[h].pages |-> PageRecord(req[h].url, i)]} :
            Extract(h, pages, fault)
    \/ \E h \in Handlers, results \in ProviderResults, fault \in BOOLEAN :
            Enrich(h, results, fault)
    \/ \E h \in Handlers, fault \in {"none", "score", "report"} :
            ScoreReport(h, fault)
    \/ \E h \in Handlers, fault \in BOOLEAN : Persist(h, fault)
    \/ \E h \in Handlers, fault \in BOOLEAN : Commit(h, fault)
    \/ \E h \in Handlers : Finish(h)

Spec == Init /\ [][Next]_vars

\* ----------------------------------------------- one crawler, fetch by fetch
\* A fetch_page invocation on the crawler under test (one WebCrawler, one
\* domain), with everything the invocation met and did.
FetchPage(readOk, verdict, http, logFail) ==
    /\ lastFetch.n < MaxFetches
    /\ LET parser == _get_robots_parser(lastFetch.parser, readOk)
       IN  /\ verdict \in CanFetchAnswers(parser)
           /\ lastFetch' = [n |-> lastFetch.n + 1, readOk |-> readOk,
                            verdict |-> verdict, http |-> http,
                            logFail |-> logFail, parser |-> parser,
                            out |-> fetch_page(verdict, http, logFail)]
    /\ UNCHANGED <<store, pending, nextId, pc, req, crawl, work, stages,
                   outcome, returned, session, site, enrichment, applied, txn>>

NextFetch ==
    \E readOk \in BOOLEAN, verdict \in Verdicts, http \in HttpOutcomes,
       logFail \in BOOLEAN : FetchPage(readOk, verdict, http, logFail)

SpecFetch == Init /\ [][NextFetch]_vars

\* ------------------------------------- one crawler, concurrent fetch_page
\* One WebCrawler whose fetch_page is called by several tasks of the event
\* loop.  A step is the code of one task between two awaits; the awaits are
\* the semaphore acquire, parser.read, asyncio.sleep, client.get and the
\* flush of the crawl log.  Time is counted in clock ticks.
SessionFrame ==
    UNCHANGED <<store, pending, nextId, pc, req, crawl, lastFetch, work,
                stages, outcome, returned, site, enrichment, applied, txn>>

\* The fetch_page calls that hold a slot of the semaphore: they are in the
\* robots check, in the rate-limit wait or in the GET.
InFlight(s) == {c \in Callers : s.caller[c].pc \in {"reading", "sleep", "get"}}

\* `async with self._semaphore` is left, by a return or by an exception:
\* the slot is handed back.
Release(s, c, end) ==
    [s EXCEPT !.value = @ + 1, !.lastEnd = end, !.caller[c] = NoCall]

\* fetch_page from `self.last_request_times[domain] = time.time()` to
\* `await self.client.get(url)`: no await lies between them.
StartGet(s, c) ==
    LET d == s.caller[c].domain
    IN  [s EXCEPT !.last_request_times[d] = s.now,
                  !.gets[d] = Append(@, s.now),
                  !.caller[c].pc = "get",
                  !.caller[c].wake = 0]

\* WebCrawler._respect_crawl_delay up to its await: the caller sleeps for
\* the remainder of the interval, or goes on at once.
_respect_crawl_delay(s, c) ==
    LET d == s.caller[c].domain
        elapsed == s.now - s.last_request_times[d]
    IN  IF s.last_request_times[d] # NoTime /\ elapsed < s.delay
        THEN [s EXCEPT !.caller[c].pc = "sleep",
                       !.caller[c].wake = s.now + (s.delay - elapsed)]
        ELSE StartGet(s, c)

\* fetch_page once the robots parser of the domain is at hand: a denial and
\* a raising check are logged and end the call, otherwise the rate limit
\* is applied.
AfterRobots(s, c, verdict) ==
    LET allowed == _is_allowed_by_robots(verdict)
    IN  IF allowed = "deny" THEN Release(s, c, "denied")
        ELSE IF allowed = "raise" THEN Release(s, c, "error")
        ELSE _respect_crawl_delay(s, c)

\* `if domain not in self.robots_cache`
CacheMiss(s, d) == RESPECT_ROBOTS_TXT /\ s.robots_cache[d] = "absent"

\* fetch_page once it holds a slot: _get_robots_parser finds the domain in
\* the cache, or issues the robots.txt request and awaits it.
AfterAcquire(s, c, verdict) ==
    LET d == s.caller[c].domain
    IN  IF CacheMiss(s, d)
        THEN [s EXCEPT !.reads[d] = @ + 1, !.caller[c].pc = "reading"]
        ELSE AfterRobots(s, c, verdict)

\* WebCrawler.__init__ under the settings of the process.
NewCrawler(max_concurrent_requests, crawl_delay) ==
    /\ ~session.open
    /\ session' = [session EXCEPT !.open = TRUE,
                                  !.limit = max_concurrent_requests,
                                  !.delay = crawl_delay,
                                  !.value = max_concurrent_requests]
    /\ SessionFrame

\* A semaphore that lets every caller in.
SlotFreeAlways(s) == TRUE

\* asyncio.Semaphore.locked() is false
SlotFree(s) == s.value > 0

\* A task calls fetch_page(url) for a URL of domain d.  The callers are
\* interchangeable: a call is made by the first idle one.
Enter(c, d, verdict) ==
    /\ session.open
    /\ session.calls < MaxCalls
    /\ session.caller[c].pc = "idle"
    /\ \A b \in Callers : b < c => session.caller[b].pc # "idle"
    /\ verdict \in CanFetchAnswers(session.robots_cache[d])
    /\ LET s == [session EXCEPT !.calls = @ + 1, !.caller[c].domain = d]
       IN  session' =
             IF SlotFree(s)
             THEN AfterAcquire([s EXCEPT !.value = @ - 1], c, verdict)
             ELSE [s EXCEPT !.caller[c].pc = "wait_sem"]
    /\ SessionFrame

\* A caller that waited for the semaphore gets a slot.
Acquire(c, verdict) ==
    /\ session.caller[c].pc = "wait_sem"
    /\ SlotFree(session)
    /\ verdict \in CanFetchAnswers(session.robots_cache[session.caller[c].domain])
    /\ session' = AfterAcquire([session EXCEPT !.value = @ - 1], c, verdict)
    /\ SessionFrame

\* parser.read(robots_url) is over: the parser (or the fallback parser) is
\* put into the cache and asked.
ReadDone(c, readOk, verdict) ==
    /\ session.caller[c].pc = "reading"
    /\ LET d == session.caller[c].domain
           parser == IF readOk THEN "loaded" ELSE "fallback"
       IN  /\ verdict \in CanFetchAnswers(parser)
           /\ session' = AfterRobots(
                 [session EXCEPT !.robots_cache[d] = parser], c, verdict)
    /\ SessionFrame

\* asyncio.sleep(delay) is over.
Wake(c) ==
    /\ session.caller[c].pc = "sleep"
    /\ session.now >= session.caller[c].wake
    /\ session' = StartGet(session, c)
    /\ SessionFrame

\* client.get is over: the result is logged and fetch_page returns.
GetDone(c, http) ==
    /\ session.caller[c].pc = "get"
    /\ session' = Release(session, c,
                          IF http \in {"ok", "ok_empty"} THEN "success"
                          ELSE "error")
    /\ SessionFrame

\* The clock advances.
Tick ==
    /\ session.open
    /\ session.now < MaxTime
    /\ session' = [session EXCEPT !.now = @ + 1]
    /\ SessionFrame

NextSession ==
    \/ \E max_concurrent_requests \in 1..MaxConcurrent, crawl_delay \in 1..MaxDelay :
          NewCrawler(max_concurrent_requests, crawl_delay)
    \/ \E c \in Callers, d \in Domains, verdict \in Verdicts : Enter(c, d, verdict)
    \/ \E c \in Callers, verdict \in Verdicts : Acquire(c, verdict)
    \/ \E c \in Callers, readOk \in BOOLEAN, verdict \in Verdicts :
          ReadDone(c, readOk, verdict)
    \/ \E c \in Callers : Wake(c)
    \/ \E c \in Callers, http \in HttpOutcomes : GetDone(c, http)
    \/ Tick

SpecSession == Init /\ [][NextSession]_vars

\* ------------------------------------------------- one crawl_site call
\* crawl_site(start_url, profile_id, max_pages) on a crawler of its own.
\* hrefs: the a[href] links of the page at the start URL, in document
\* order.  A step is the code of crawl_site between two awaits of
\* fetch_page.
SiteFrame ==
    UNCHANGED <<store, pending, nextId, pc, req, crawl, lastFetch, work,
                stages, outcome, returned, session, enrichment, applied, txn>>

\* All sequences over S of length at most n.
SeqsUpTo(S, n) == UNION {[1..k -> S] : k \in 0..n}

\* The URLs of SiteURLs after urljoin and urlparse: the network location,
\* the pieces of the path that matter to the denylist, and whether the link
\* text or the href holds one of the keywords (about, company, team, ...).
SiteLinks ==
    [u \in SiteURLs |->
        CASE u = "s" -> [netloc |-> "example.com", path |-> {}, keyword |-> TRUE]
          [] u = "a" -> [netloc |-> "example.com", path |-> {}, keyword |-> TRUE]
          [] u = "b" -> [netloc |-> "example.com", path |-> {}, keyword |-> TRUE]
          [] u = "c" -> [netloc |-> "example.com", path |-> {}, keyword |-> TRUE]
          [] u = "x" -> [netloc |-> "other.com", path |-> {}, keyword |-> TRUE]
          [] u = "p" -> [netloc |-> "example.com", path |-> {"/API/"},
                         keyword |-> TRUE]
          [] u = "n" -> [netloc |-> "example.com", path |-> {},
                         keyword |-> FALSE]]

\* avoid_patterns of _should_follow_link
avoid_patterns ==
    <<"/api/", "/ajax/", "/static/", "/assets/", "/css/", "/js/", "/images/",
      "/img/", "/admin/", "/dashboard/", "/login/", ".json", ".xml", ".pdf",
      ".doc">>

\* str.lower() of a piece of a path
Lower(piece) == IF piece = "/API/" THEN "/api/" ELSE piece

\* A link test that does not look at the network location.
_should_follow_link_any_domain(url, base_url) ==
    ~\E i \in DOMAIN avoid_patterns :
        avoid_patterns[i] \in {Lower(piece) : piece \in SiteLinks[url].path}

\* WebCrawler._should_follow_link
_should_follow_link(url, base_url) ==
    IF SiteLinks[url].netloc # SiteLinks[base_url].netloc THEN FALSE
    ELSE ~\E i \in DOMAIN avoid_patterns :
            avoid_patterns[i] \in {Lower(piece) : piece \in SiteLinks[url].path}

\* The loop of _extract_additional_urls: the links that _should_follow_link
\* and the keyword test let through, in document order.
Candidates(hrefs, base_url) ==
    SelectSeq(hrefs, LAMBDA u : _should_follow_link(u, base_url)
                                /\ SiteLinks[u].keyword)

\* A link extraction that keeps every qualifying link.
_extract_additional_urls_all(found) == found

\* WebCrawler._extract_additional_urls: `return urls[:3]`
_extract_additional_urls(found) ==
    IF Len(found) > 3 THEN SubSeq(found, 1, 3) ELSE found

\* What fetch_page can do for a URL of the site, whatever the robots parser.
SiteFetchResults == FetchResults("loaded") \cup FetchResults("fallback")

\* A crawl_site that looks for links whatever the start page brought.
LinksWantedAlways(pages_content, main_content) ==
    Len(pages_content) < max_pages

\* `if len(pages_content) < max_pages and main_content` of crawl_site
LinksWanted(pages_content, main_content) ==
    Len(pages_content) < max_pages /\ HasContent(main_content)

\* A crawl_site that starts a fetch while another is under way.
FetchAwaitedNever(inflight) == TRUE

\* `content = await self.fetch_page(url, profile_id)`: the loop goes on only
\* when the fetch it started has returned.
FetchAwaited(inflight) == inflight = <<>>

\* The position of crawl_site once the fetches started so far have
\* returned and the candidates left are `rest`.
AfterFetch(inflight, rest) ==
    IF inflight = <<>> /\ rest = <<>> THEN "done" ELSE "links"

\* crawl_site calls fetch_page for the start URL.
CrawlStart ==
    /\ site.pc = "idle"
    /\ site' = [NoSite EXCEPT !.pc = "start", !.inflight = <<"s">>,
                              !.fetched = <<"s">>]
    /\ SiteFrame

\* The fetch of the start page has returned: its content is kept and,
\* when it has content, its candidate links are extracted.
CrawlStartDone(hrefs, f) ==
    /\ site.pc = "start"
    /\ f \in SiteFetchResults
    /\ LET main_content == f.result
           pages_content == IF HasContent(main_content) THEN <<"s">> ELSE <<>>
           crawled_urls == IF HasContent(main_content) THEN {"s"} ELSE {}
           found == Candidates(hrefs, "s")
           additional_urls ==
               IF LinksWanted(pages_content, main_content)
               THEN _extract_additional_urls(found) ELSE <<>>
       IN  site' = [site EXCEPT
                      !.pc = IF f.raised THEN "raised"
                             ELSE AfterFetch(<<>>, additional_urls),
                      !.hrefs = hrefs,
                      !.found = found,
                      !.additional_urls = additional_urls,
                      !.pages_content = pages_content,
                      !.crawled_urls = crawled_urls,
                      !.inflight = <<>>,
                      !.results = <<HasContent(main_content)>>]
    /\ SiteFrame

\* One round of `for url in additional_urls`: the break at max_pages, the
\* skip of a URL in crawled_urls, or the call of fetch_page for the link.
CrawlLink ==
    /\ site.pc = "links"
    /\ site.additional_urls # <<>>
    /\ FetchAwaited(site.inflight)
    /\ LET url == Head(site.additional_urls)
           rest == Tail(site.additional_urls)
       IN  IF Len(site.pages_content) >= max_pages THEN
               site' = [site EXCEPT !.pc = AfterFetch(site.inflight, <<>>),
                                    !.additional_urls = <<>>]
           ELSE IF url \in site.crawled_urls THEN
               site' = [site EXCEPT !.pc = AfterFetch(site.inflight, rest),
                                    !.additional_urls = rest]
           ELSE
               site' = [site EXCEPT !.additional_urls = rest,
                                    !.inflight = Append(@, url),
                                    !.fetched = Append(@, url)]
    /\ SiteFrame

\* The fetch of a link has returned: its content is kept, if any.
CrawlLinkDone(f) ==
    /\ site.pc = "links"
    /\ site.inflight # <<>>
    /\ f \in SiteFetchResults
    /\ LET url == Head(site.inflight)
           content == f.result
       IN  site' = [site EXCEPT
                      !.pc = IF f.raised THEN "raised"
                             ELSE AfterFetch(Tail(site.inflight),
                                             site.additional_urls),
                      !.inflight = Tail(@),
                      !.results = Append(@, HasContent(content)),
                      !.pages_content =
                          IF HasContent(content) THEN Append(@, url) ELSE @,
                      !.crawled_urls =
                          IF HasContent(content) THEN @ \cup {url} ELSE @]
    /\ SiteFrame

\* crawl_site has returned pages_content; the next crawl starts afresh.
CrawlReturn ==
    /\ site.pc = "done"
    /\ site' = NoSite
    /\ SiteFrame

NextSite ==
    \/ CrawlStart
    \/ /\ site.pc = "start"
       /\ \E hrefs \in SeqsUpTo(SiteURLs, MaxFound) :
            \E f \in SiteFetchResults : CrawlStartDone(hrefs, f)
    \/ CrawlLink
    \/ \E f \in SiteFetchResults : CrawlLinkDone(f)
    \/ CrawlReturn

SpecSite == Init /\ [][NextSite]_vars

\* ------------------------------------------ one enrich_company_data call
\* EnrichmentManager.enrich_company_data with its two providers.  The
\* providers are configured by settings.ENABLE_* and settings.*_API_KEY;
\* what a provider's enrich() does is chosen by the environment.
EnrichFrame ==
    UNCHANGED <<store, pending, nextId, pc, req, crawl, lastFetch, work,
                stages, outcome, returned, session, site, applied, txn>>

\* The settings of the two providers: enabled, and whether an API key is set.
ProviderSettings ==
    [{"crunchbase", "linkedin"} -> [enabled : BOOLEAN, api_key : BOOLEAN]]

\* The records handed to the manager.
EnrichInputs ==
    { <<>>,
      [name |-> Str("X"), industry |-> None],
      [name |-> Str("X"), industry |-> Str("Fintech")],
      [name |-> Str("")],
      [website |-> Str("u1")],
      [linkedin_url |-> Str("li")] }

\* A provider that was not invoked.
NotInvoked == [kind |-> "none", msg |-> None, data |-> <<>>]

\* What enrich() of a provider can do: return a success result with data
\* or with an empty dict, return a failure result (with or without a
\* message, with or without data), raise, or still be running when the
\* deadline elapses.
ProviderOutcomes ==
    { [kind |-> "ok", msg |-> None, data |-> [industry |-> Str("Tech")]],
      [kind |-> "ok", msg |-> None, data |-> [industry |-> Str("Bank")]],
      [kind |-> "ok", msg |-> None, data |-> <<>>],
      [kind |-> "ok", msg |-> None,
       data |-> [industry |-> None, employee_count |-> Num(50)]],
      [kind |-> "fail", msg |-> Str("not found"), data |-> <<>>],
      [kind |-> "fail", msg |-> Str(""), data |-> [industry |-> Str("Tech")]],
      [kind |-> "fail", msg |-> None, data |-> <<>>],
      [kind |-> "exc", msg |-> Str("boom"), data |-> <<>>],
      [kind |-> "exc", msg |-> Str(""), data |-> <<>>],
      [kind |-> "slow", msg |-> None, data |-> <<>>] }

\* A can_enrich that does not ask for an API key.
can_enrich_unkeyed(provider, cfg, company_data) ==
    IF ~cfg.enabled THEN FALSE
    ELSE IF provider = "crunchbase"
         THEN Truthy(Get(company_data, "name"))
              \/ Truthy(Get(company_data, "website"))
         ELSE Truthy(Get(company_data, "name"))
              \/ Truthy(Get(company_data, "linkedin_url"))

\* CrunchbaseProvider.can_enrich and LinkedInProvider.can_enrich
can_enrich(provider, cfg, company_data) ==
    IF ~cfg.enabled \/ ~cfg.api_key THEN FALSE
    ELSE IF provider = "crunchbase"
         THEN Truthy(Get(company_data, "name"))
              \/ Truthy(Get(company_data, "website"))
         ELSE Truthy(Get(company_data, "name"))
              \/ Truthy(Get(company_data, "linkedin_url"))

\* A manager that takes every provider.
applicable_providers_all(providers, company_data) == Providers

\* enrich_company_data, `applicable_providers = [...]`
applicable_providers(providers, company_data) ==
    SelectSeq(Providers,
              LAMBDA p : providers[p].enabled
                         /\ can_enrich(p, providers[p], company_data))

\* The result object of one provider task.
TaskResult(p, outcomes) ==
    [kind |-> outcomes[p].kind, provider |-> p, msg |-> outcomes[p].msg,
     data |-> outcomes[p].data]

\* The orders in which the tasks of the applicable providers can complete.
CompletionOrders(applicable) ==
    {q \in [DOMAIN applicable -> {applicable[i] : i \in DOMAIN applicable}] :
        \A i \in DOMAIN applicable : \E k \in DOMAIN q : q[k] = applicable[i]}

\* Results handed over in the order in which the tasks completed.
ResultOrderCompleted(applicable, completion) == completion

\* The order of the results of asyncio.gather: that of the awaitables passed
\* to it, whatever the order `completion` in which they completed.
ResultOrder(applicable, completion) == applicable

\* A gather that lets the first exception through.
gather_fail_fast(applicable, outcomes, completion) ==
    [raised |-> \E i \in DOMAIN applicable : outcomes[applicable[i]].kind = "exc",
     results |-> [i \in DOMAIN applicable |-> TaskResult(applicable[i], outcomes)]]

\* asyncio.gather(*enrichment_tasks, return_exceptions=True): one entry per
\* applicable provider; a raised exception is an entry.
gather(applicable, outcomes, completion) ==
    [raised |-> FALSE,
     results |-> [i \in DOMAIN applicable |->
                    TaskResult(ResultOrder(applicable, completion)[i], outcomes)]]

\* A deadline after which the completed results are kept.
wait_for_salvage(gathered) ==
    [raised |-> gathered.raised,
     timed_out |-> \E i \in DOMAIN gathered.results :
                       gathered.results[i].kind = "slow",
     results |-> SelectSeq(gathered.results, LAMBDA r : r.kind # "slow")]

\* asyncio.wait_for(gather, timeout) and `except asyncio.TimeoutError:
\* results = []`: when a provider is still running at the deadline, nothing
\* is kept.
wait_for(gathered) ==
    LET timed_out == \E i \in DOMAIN gathered.results :
                         gathered.results[i].kind = "slow"
    IN  [raised |-> gathered.raised /\ ~timed_out,
         timed_out |-> timed_out,
         results |-> IF timed_out THEN <<>> ELSE gathered.results]

\* EnrichmentManager.enrich_company_data as a whole.  invoked: the providers
\* whose enrich() was called.
EnrichmentManager_enrich_company_data(providers, company_data, outcomes, completion) ==
    LET applicable == applicable_providers(providers, company_data)
    IN  IF applicable = <<>>
        THEN [enriched_data |-> company_data, enrichment_sources |-> <<>>,
              enrichment_errors |-> <<>>, invoked |-> <<>>,
              timed_out |-> FALSE, raised |-> FALSE]
        ELSE LET waited == wait_for(gather(applicable, outcomes, completion))
                 processed == enrich_company_data(company_data, waited.results)
             IN  IF waited.raised
                 THEN [enriched_data |-> <<>>, enrichment_sources |-> <<>>,
                       enrichment_errors |-> <<>>, invoked |-> applicable,
                       timed_out |-> FALSE, raised |-> TRUE]
                 ELSE [enriched_data |-> processed.enriched_data,
                       enrichment_sources |-> processed.enrichment_sources,
                       enrichment_errors |-> processed.enrichment_errors,
                       invoked |-> applicable,
                       timed_out |-> waited.timed_out, raised |-> FALSE]

\* A call of enrich_company_data(company_data).
EnrichCall(providers, company_data, outcomes, completion) ==
    /\ ~enrichment.called
    /\ LET applicable == applicable_providers(providers, company_data)
       IN  /\ \A p \in DOMAIN outcomes :
                 IF \E i \in DOMAIN applicable : applicable[i] = p
                 THEN outcomes[p] \in ProviderOutcomes
                 ELSE outcomes[p] = NotInvoked
           /\ completion \in CompletionOrders(applicable)
           /\ enrichment' =
                 [called |-> TRUE, providers |-> providers,
                  company_data |-> company_data,
                  applicable |-> applicable, outcomes |-> outcomes,
                  completion |-> completion,
                  out |-> EnrichmentManager_enrich_company_data(
                              providers, company_data, outcomes, completion)]
    /\ EnrichFrame

\* The call has returned; the manager takes the next one.
EnrichReturn ==
    /\ enrichment.called
    /\ enrichment' = NoEnrichment
    /\ EnrichFrame

NextEnrich ==
    \/ /\ ~enrichment.called
       /\ \E providers \in ProviderSettings, company_data \in EnrichInputs :
            \E outcomes \in [{"crunchbase", "linkedin"} ->
                                ProviderOutcomes \cup {NotInvoked}] :
                \E completion \in SeqsUpTo({"crunchbase", "linkedin"}, 2) :
                    EnrichCall(providers, company_data, outcomes, completion)
    \/ EnrichReturn

SpecEnrich == Init /\ [][NextEnrich]_vars

\* ------------------------------------------ functions without side effects
\* The merge of the extracted pages, the two scores, the extraction rules
\* and the report renderer are computed from their arguments alone.  Each
\* is applied to arguments drawn from a bounded set; `applied` holds the
\* arguments and the result of the call.
AppliedFrame ==
    UNCHANGED <<store, pending, nextId, pc, req, crawl, lastFetch, work,
                stages, outcome, returned, session, site, enrichment, txn>>

\* The call is over.
Forget ==
    /\ applied.fn # "none"
    /\ applied' = NoApplied
    /\ AppliedFrame

\* What extract_info returns for a page: the None values are removed, the
\* website is the base URL and the list fields are always there.
ExtractedPage(name, industry, locations) ==
    [k \in {"website", "locations"}
           \cup (IF name = None THEN {} ELSE {"name"})
           \cup (IF industry = None THEN {} ELSE {"industry"}) |->
        CASE k = "website" -> Str("u1")
          [] k = "locations" -> locations
          [] k = "name" -> name
          [] k = "industry" -> industry]

\* The extracted pages that analyze merges.
ExtractedPages ==
    {ExtractedPage(name, industry, locations) :
        name \in {None, Str("Acme"), Str("About Acme")},
        industry \in {None, Str("Fintech")},
        locations \in {Lst(<<>>), Lst(<<"Austin, TX">>)}}

\* analyze, Step 2, for the pages that crawl_site returned.
MergeCall(pages) ==
    /\ applied.fn = "none"
    /\ applied' = [fn |-> "merge", pages |-> pages,
                   out |-> MergePages(<<>>, pages)]
    /\ AppliedFrame

NextMerge ==
    \/ /\ applied.fn = "none"
       /\ \E n \in 1..max_pages : \E pages \in [1..n -> ExtractedPages] :
            MergeCall(pages)
    \/ Forget

SpecMerge == Init /\ [][NextMerge]_vars

\* ----------------------------------------------------- the two scores
\* The fields of the completeness checklist, and a field outside of it.
ChecklistFields == DOMAIN FieldWeights
ScoreFields == ChecklistFields \cup {"locations"}

\* A value that populates the field.
FilledValue(f) ==
    CASE f \in {"employee_count"} -> Num(50)
      [] f \in {"founded_year"} -> Num(2020)
      [] f \in {"tech_stack"} -> Lst(<<"Python">>)
      [] f \in {"locations"} -> Lst(<<"Austin, TX">>)
      [] OTHER -> Str("Acme")

\* A value of the field's type that does not populate it: None, an empty
\* or blank string, zero or a negative number, an empty list.
BlankValue(f) ==
    CASE f \in {"name", "funding_stage"} -> Str(" ")
      [] f \in {"description", "website", "headquarters"} -> Str("")
      [] f \in {"industry", "employee_count_range", "linkedin_url"} -> None
      [] f \in {"employee_count"} -> Num(0)
      [] f \in {"founded_year"} -> Num(-1)
      [] OTHER -> Lst(<<>>)

\* A company data dict with the fields of P populated; the other fields
\* are missing, None or blank.
ScoreRecord(P, style) ==
    [f \in (IF style = "absent" THEN P ELSE ScoreFields) |->
        IF f \in P THEN FilledValue(f)
        ELSE IF style = "none" THEN None ELSE BlankValue(f)]

\* The lists of enrichment sources.
SourceLists ==
    {<<>>, <<"crunchbase">>, <<"crunchbase", "linkedin">>,
     <<"crunchbase", "linkedin", "other">>}

\* _calculate_completeness_score is applied to two records.
CompletenessCall(a, b) ==
    /\ applied.fn = "none"
    /\ applied' = [fn |-> "completeness", a |-> a, b |-> b,
                   score_a |-> _calculate_completeness_score(a),
                   score_b |-> _calculate_completeness_score(b)]
    /\ AppliedFrame

\* _calculate_confidence_score is applied to a record and a source list.
ConfidenceCall(company_data, enrichment_sources) ==
    /\ applied.fn = "none"
    /\ applied' = [fn |-> "confidence", company_data |-> company_data,
                   enrichment_sources |-> enrichment_sources,
                   richness |-> richness_boost(company_data),
                   enrichment |-> enrichment_boost(enrichment_sources),
                   score |-> _calculate_confidence_score(company_data,
                                                         enrichment_sources)]
    /\ AppliedFrame

NextScore ==
    \/ /\ applied.fn = "none"
       /\ \E P \in SUBSET ChecklistFields, sa, sb \in {"absent", "blank"} :
            \E added \in {{f} : f \in ChecklistFields \ P}
                         \cup {{}, ChecklistFields \ P} :
              CompletenessCall(ScoreRecord(P, sa), ScoreRecord(P \cup added, sb))
    \/ /\ applied.fn = "none"
       /\ \E P \in SUBSET ScoreFields, style \in {"absent", "none", "blank"},
             enrichment_sources \in SourceLists :
              ConfidenceCall(ScoreRecord(P, style), enrichment_sources)
    \/ Forget

SpecScore == Init /\ [][NextScore]_vars

\* ------------------------------------------------- the extraction rules
\* The page text as _extract_founded_year sees it: the mentions of a year
\* after one of the four phrasings, in the order of the text.
founded_patterns == <<"founded in", "since", "established in", "started in">>
MentionYears == {1799, 1800, 2025, 2026}
Mentions == [phrase : {founded_patterns[i] : i \in DOMAIN founded_patterns},
             year : MentionYears]

\* re.findall(pattern, text_content, re.IGNORECASE): the years that follow
\* the phrasing, in the order of the text.
findall(pattern, text_content) ==
    LET Matches(m) == m.phrase = pattern
        found == SelectSeq(text_content, Matches)
    IN  [i \in DOMAIN found |-> found[i].year]

\* The loop of _extract_founded_year from the i-th pattern on: the first
\* match of a pattern is returned when it is in the range, and otherwise
\* the loop goes on with the next pattern.
RECURSIVE FoundedYearFrom(_, _)
FoundedYearFrom(text_content, i) ==
    IF i > Len(founded_patterns) THEN None
    ELSE LET matches == findall(founded_patterns[i], text_content)
         IN  IF matches # <<>> /\ 1800 <= matches[1] /\ matches[1] <= 2025
             THEN Num(matches[1])
             ELSE FoundedYearFrom(text_content, i + 1)

\* ContentExtractor._extract_founded_year
_extract_founded_year(text_content) == FoundedYearFrom(text_content, 1)

\* A meta tag of the page: missing, or with a content of len characters
\* once stripped.
NoTag == [present |-> FALSE, len |-> 0]
Tag(n) == [present |-> TRUE, len |-> n]
Tags == {NoTag} \cup {Tag(n) : n \in {0, 49, 50, 51}}

\* An about/overview element: its text has len characters, pad of them
\* white space around the rest.
Regions == [len : {99, 100, 101, 600}, pad : {0, 2}]

\* The loop of _extract_description over the elements of the about
\* selectors, from the i-th on.
RECURSIVE AboutFrom(_, _)
AboutFrom(elements, i) ==
    IF i > Len(elements) THEN None
    ELSE IF elements[i].len > 100
         THEN [t |-> "str", src |-> "about", index |-> i,
               len |-> Min(500, elements[i].len - elements[i].pad)]
         ELSE AboutFrom(elements, i + 1)

\* ContentExtractor._extract_description: where the description comes from
\* and how long it is.
_extract_description(meta_desc, og_desc, elements) ==
    IF meta_desc.present /\ meta_desc.len > 50
    THEN [t |-> "str", src |-> "meta", index |-> 0, len |-> meta_desc.len]
    ELSE IF og_desc.present /\ og_desc.len > 50
    THEN [t |-> "str", src |-> "og", index |-> 0, len |-> og_desc.len]
    ELSE AboutFrom(elements, 1)

\* The city patterns and the technology keywords that a page can hold.
Cities == <<"Austin, TX", "Boston, MA">>
tech_keywords == <<"python", "javascript">>
Title(s) == CASE s = "python" -> "Python"
              [] s = "javascript" -> "Javascript"
Pages ==
    [cities : SeqsUpTo({Cities[i] : i \in DOMAIN Cities}, MaxCities),
     tech : SUBSET {tech_keywords[i] : i \in DOMAIN tech_keywords}]

\* The hash seeds of the interpreter: a process draws one when it starts
\* (PYTHONHASHSEED is not set), and the hash of a string depends on it.
HashSeeds == {"seed1", "seed2"}

\* list(set(...)): the elements in the iteration order of the set, which
\* follows the hashes of the strings.
RECURSIVE ListOfSet(_, _)
ListOfSet(S, seed) ==
    IF S = {} THEN <<>>
    ELSE LET Rank(c) == CHOOSE i \in DOMAIN Cities : Cities[i] = c
             first == CHOOSE c \in S : \A d \in S :
                         IF seed = "seed1" THEN Rank(c) <= Rank(d)
                                           ELSE Rank(c) >= Rank(d)
         IN  <<first>> \o ListOfSet(S \ {first}, seed)

\* ContentExtractor._extract_locations
_extract_locations(cities, seed) ==
    ListOfSet({cities[i] : i \in 1..Min(5, Len(cities))}, seed)

\* ContentExtractor._extract_tech_stack: the keywords of the page, in the
\* order of tech_keywords.
_extract_tech_stack(tech) ==
    LET Found(k) == k \in tech
        found_tech == SelectSeq(tech_keywords, Found)
    IN  [i \in DOMAIN found_tech |-> Title(found_tech[i])]

\* ContentExtractor.extract_info in a process with the given hash seed.
extract_info(html_content, base_url, seed) ==
    [website |-> Str(base_url),
     locations |-> Lst(_extract_locations(html_content.cities, seed)),
     tech_stack |-> Lst(_extract_tech_stack(html_content.tech))]

FoundedYearCall(text_content) ==
    /\ applied.fn = "none"
    /\ applied' = [fn |-> "founded_year", text |-> text_content,
                   out |-> _extract_founded_year(text_content)]
    /\ AppliedFrame

DescriptionCall(meta_desc, og_desc, elements) ==
    /\ applied.fn = "none"
    /\ applied' = [fn |-> "description", meta |-> meta_desc, og |-> og_desc,
                   elements |-> elements,
                   out |-> _extract_description(meta_desc, og_desc, elements)]
    /\ AppliedFrame

\* extract_info is called twice on the same page and base URL.  The first
\* call is made by extractor 1 of process 1; the second by the same
\* extractor ("same"), by another extractor of the process ("instance") or
\* by an extractor of another process ("process").
ExtractInfoCalls(html_content, other, seed1, seed2) ==
    /\ applied.fn = "none"
    /\ applied' =
          [fn |-> "extract_info", page |-> html_content, other |-> other,
           first |-> extract_info(html_content, "u1", seed1),
           second |-> extract_info(html_content, "u1",
                         IF other = "process" THEN seed2 ELSE seed1)]
    /\ AppliedFrame

NextExtract ==
    \/ /\ applied.fn = "none"
       /\ \E text_content \in SeqsUpTo(Mentions, MaxMentions) :
            FoundedYearCall(text_content)
    \/ /\ applied.fn = "none"
       /\ \E meta_desc \in Tags, og_desc \in Tags,
             elements \in SeqsUpTo(Regions, MaxRegions) :
            DescriptionCall(meta_desc, og_desc, elements)
    \/ /\ applied.fn = "none"
       /\ \E html_content \in Pages, other \in {"same", "instance", "process"},
             seed1 \in HashSeeds, seed2 \in HashSeeds :
            ExtractInfoCalls(html_content, other, seed1, seed2)
    \/ Forget

SpecExtract == Init /\ [][NextExtract]_vars

\* ------------------------------------------------------ the report renderer
\* The fields that decide a line of the report (the name stands in the
\* title and in the summary, whatever it is).
ReportFields ==
    {"description", "industry", "founded_year", "website",
     "employee_count", "employee_count_range", "funding_stage",
     "total_funding", "headquarters", "locations", "tech_stack", "benefits",
     "culture_keywords", "linkedin_url", "twitter_url"}

\* A truthy value of the field.
TruthyValue(f) ==
    CASE f \in {"employee_count", "founded_year", "total_funding"} -> Num(25)
      [] f \in {"locations", "tech_stack", "benefits", "culture_keywords"} ->
            Lst(<<"one", "two">>)
      [] OTHER -> Str("Acme")

\* A falsy value of the field's type: None, "", 0 or [].
FalsyValue(f) ==
    CASE f \in {"employee_count", "total_funding"} -> Num(0)
      [] f \in {"locations", "tech_stack", "benefits", "culture_keywords"} ->
            Lst(<<>>)
      [] f \in {"description", "headquarters", "linkedin_url"} -> Str("")
      [] OTHER -> None

\* A company data dict with the fields of P truthy; the other fields are
\* missing or falsy.
ReportRecord(P, style) ==
    [f \in (IF style = "absent" THEN P ELSE ReportFields) |->
        IF f \in P THEN TruthyValue(f) ELSE FalsyValue(f)]

\* generate_report is applied to a record.  The scores do not decide a
\* line of the report.
ReportCall(company_data, enrichment_sources, enrichment_errors) ==
    /\ applied.fn = "none"
    /\ applied' = [fn |-> "report", company_data |-> company_data,
                   lines |-> report_sections(company_data, 0, 60,
                                 enrichment_sources, enrichment_errors)]
    /\ AppliedFrame

NextReport ==
    \/ /\ applied.fn = "none"
       /\ \E P \in SUBSET ReportFields, style \in {"absent", "falsy"},
             enriched \in BOOLEAN :
            ReportCall(ReportRecord(P, style),
                       IF enriched THEN <<"crunchbase">> ELSE <<>>,
                       IF enriched THEN << <<"linkedin", "boom">> >> ELSE <<>>)
    \/ Forget

SpecReport == Init /\ [][NextReport]_vars

\* ------------------------------------- one request and its transaction
\* analyze_job_url for one request at a time: the session that
\* get_db_session opens, the crawl_logs rows that the fetches of the request
\* flush in it, the profile row of _save_profile, the two outcome counters,
\* and the commit or rollback when the `async with` block is left.
\* logged: crawl_logs rows written by the fetches; profiles: profile rows
\* flushed; stored_*: rows of the request in the store; success, error:
\* increments of ANALYSIS_SUCCESS_COUNT and ANALYSIS_ERROR_COUNT.
TxnFrame ==
    UNCHANGED <<store, pending, nextId, pc, req, crawl, lastFetch, work,
                stages, outcome, returned, session, site, enrichment, applied>>

\* A crawler whose log rows are committed on a session of their own.
CrawlLogsRolledBackKept(logged) == logged

\* get_db_session, `except: await session.rollback()`: what is left of the
\* crawl_logs rows that the request flushed in the session.
CrawlLogsRolledBack(logged) == 0

\* An exception leaves the `async with get_db_session()` block, raised by
\* analyze or by the commit: rollback, then `except Exception` of
\* analyze_job_url increments ANALYSIS_ERROR_COUNT and answers 500.
RequestFails(t, cause) ==
    [t EXCEPT !.pc = "done", !.status = 500, !.cause = cause,
              !.profiles = 0,
              !.stored_logs = CrawlLogsRolledBack(t.logged),
              !.stored_profiles = 0,
              !.error = @ + 1]

\* POST /analyze arrives.  cached: the URL has a stored row and the request
\* does not force a refresh.
ReceiveRequest(cached) ==
    /\ txn.pc \in {"idle", "done"}
    /\ txn.served < MaxServed
    /\ txn' = [NoTxn EXCEPT !.pc = "analyze", !.served = txn.served + 1,
                            !.cached = cached]
    /\ TxnFrame

\* A fetch_page call of the request's crawl: its log rows are added to the
\* session of the request and flushed.  Links are fetched only after a
\* start page with content.
RequestFetch(f) ==
    /\ txn.pc = "analyze"
    /\ ~txn.cached
    /\ txn.fetches <= MaxLinks
    /\ txn.fetches > 0 => txn.pages > 0
    /\ f \in SiteFetchResults
    /\ txn' = IF f.raised THEN RequestFails(txn, "crawl")
              ELSE [txn EXCEPT !.fetches = @ + 1,
                               !.logged = @ + f.logs,
                               !.pages = @ + (IF HasContent(f.result) THEN 1 ELSE 0)]
    /\ TxnFrame

\* analyze raises: the zero-content ValueError after a crawl without pages,
\* or a failure of the lookup or of a later stage.
AnalyzeRaises(cause) ==
    /\ txn.pc = "analyze"
    /\ cause = "zero_content" <=> (txn.fetches > 0 /\ txn.pages = 0)
    /\ cause = "lookup" => txn.fetches = 0
    /\ cause = "stage" => txn.pages > 0
    /\ txn' = RequestFails(txn, cause)
    /\ TxnFrame

\* analyze returns the response, of the stored row or of the row it has
\* flushed, and analyze_job_url increments ANALYSIS_SUCCESS_COUNT, still
\* inside the `async with` block.
AnalyzeReturns ==
    /\ txn.pc = "analyze"
    /\ txn.cached \/ txn.pages > 0
    /\ txn' = [txn EXCEPT !.pc = "commit",
                          !.profiles = IF txn.cached THEN 0 ELSE 1,
                          !.success = @ + 1]
    /\ TxnFrame

\* The `async with` block is left by `return result`: get_db_session
\* commits.  fault: the commit raises.
CommitSession(fault) ==
    /\ txn.pc = "commit"
    /\ txn' = IF fault THEN RequestFails(txn, "commit")
              ELSE [txn EXCEPT !.pc = "done", !.status = 200,
                               !.stored_logs = txn.logged,
                               !.stored_profiles = txn.profiles,
                               !.profiles = 0]
    /\ TxnFrame

NextRequest ==
    \/ \E cached \in BOOLEAN : ReceiveRequest(cached)
    \/ \E f \in SiteFetchResults : RequestFetch(f)
    \/ \E cause \in {"lookup", "zero_content", "stage"} : AnalyzeRaises(cause)
    \/ AnalyzeReturns
    \/ \E fault \in BOOLEAN : CommitSession(fault)

SpecRequest == Init /\ [][NextRequest]_vars

\* ================================================================ claims
InSeq(x, q) == \E i \in DOMAIN q : q[i] = x
Served(h) == pc[h] = "done"
RowsOf(id) == {p \in store : p.id = id}
AllRows == store \cup UNION {pending[h] : h \in Handlers}
\* The faults that the environment injects (a database, extractor, provider
\* or renderer failure), as opposed to those the code raises by itself.
InjectedFaults == {"lookup", "crawl", "extract", "enrich", "score", "report",
                   "persist", "commit"}

\* C1: a request without force_refresh for a URL whose analysis already
\* succeeded makes no fetch_page call and writes no row, and what it returns
\* (profile id and every field) is what the first successful analysis of the
\* URL returned.
C1_Idempotent ==
    \A h \in Handlers :
        (req[h].id > 0 /\ ~req[h].force_refresh /\ req[h].hadRow) =>
            /\ ~crawl[h].started
            /\ pending[h] = {}
            /\ (Served(h) /\ outcome[h].status = 200) =>
                  /\ outcome[h].response = returned[req[h].url]
                  /\ outcome[h].response.profile_id # req[h].id
                  /\ outcome[h].rowsAdded = 0
                  /\ RowsOf(req[h].id) = {}

C1_Witness ==
    \E h \in Handlers :
        /\ Served(h) /\ outcome[h].status = 200
        /\ ~req[h].force_refresh /\ req[h].hadRow
        /\ outcome[h].response = returned[req[h].url]

\* The stages a run has completed when its row is flushed.
StagesOfRun(h) ==
    (IF req[h].force_refresh THEN <<>> ELSE <<"Lookup">>)
    \o <<"Crawl", "Extract">>
    \o (IF req[h].include_enrichment THEN <<"Enrich">> ELSE <<>>)
    \o <<"Score", "Report", "Persist", "Respond">>

\* C2: a row is written only by a run that has completed Crawl, Extract,
\* Enrich (when requested), Score and Report; a run that missed the cache and
\* returns normally has added exactly one row; a run that raises has added
\* none.
C2_AllOrNothing ==
    \A h \in Handlers :
        /\ pending[h] # {} =>
              /\ Cardinality(pending[h]) = 1
              /\ stages[h] = StagesOfRun(h)
        /\ (Served(h) /\ outcome[h].status = 200 /\ InSeq("Crawl", stages[h])) =>
              /\ outcome[h].rowsAdded = 1
              /\ Cardinality(RowsOf(req[h].id)) = 1
              /\ stages[h] = StagesOfRun(h)
        /\ (Served(h) /\ outcome[h].status = 500) =>
              /\ outcome[h].rowsAdded = 0
              /\ RowsOf(req[h].id) = {}
              /\ pending[h] = {}

C2_Witness ==
    \E h \in Handlers :
        /\ Served(h) /\ outcome[h].status = 200
        /\ outcome[h].rowsAdded = 1
        /\ req[h].include_enrichment

\* C3: a force_refresh request for a URL that already has a committed row,
\* whose crawl returns a page and which meets no injected fault, answers 200
\* and has added a row with a new id next to the earlier one.
C3_ForceRefreshAddsRow ==
    \A h \in Handlers :
        ( /\ Served(h)
          /\ req[h].force_refresh /\ req[h].hadRow
          /\ InSeq("Crawl", stages[h])
          /\ outcome[h].cause \notin InjectedFaults ) =>
            /\ outcome[h].status = 200
            /\ \E p \in store : p.id = req[h].id /\ p.source_url = req[h].url
            /\ \E q \in store : q.id # req[h].id /\ q.source_url = req[h].url

\* C4: every row holds the SHA-256 digest of its source_url, and no two
\* rows hold the same digest.
C4_HashKey ==
    /\ \A p \in AllRows : p.source_url_hash = Sha256(p.source_url)
    /\ \A p, q \in AllRows : p # q => p.source_url_hash # q.source_url_hash

C4_Witness ==
    /\ store # {}
    /\ \E h \in Handlers : Served(h) /\ outcome[h].cause = "unique"

\* C5: a request that missed the cache, crawled a page and met no injected
\* fault answers 200, also when another request for the same URL was in
\* flight; and a URL never has more than two rows.
C5_ConcurrentDuplicates ==
    /\ \A h \in Handlers :
        ( /\ Served(h)
          /\ ~req[h].force_refresh /\ ~req[h].hadRow
          /\ InSeq("Crawl", stages[h])
          /\ outcome[h].cause \notin InjectedFaults ) =>
            outcome[h].status = 200
    /\ \A u \in URLs : Cardinality({p \in store : p.source_url = u}) <= 2

NoLaterStage(q) ==
    \A x \in {"Extract", "Enrich", "Score", "Report", "Persist"} : ~InSeq(x, q)

\* C6: when the crawl has returned zero pages, the next step of the run is
\* the fault: the endpoint answers 500, no further stage is executed and
\* nothing is written.
C6_ZeroContentFault ==
    [][\A h \in Handlers :
          (pc[h] = "crawled" /\ crawl[h].pages = 0 /\ pc'[h] # "crawled") =>
              /\ pc'[h] = "done"
              /\ outcome'[h].status = 500
              /\ outcome'[h].cause = "zero_content"
              /\ NoLaterStage(stages'[h])
              /\ pending'[h] = {}
              /\ store' = store]_vars

C6_Witness ==
    \E h \in Handlers :
        /\ Served(h) /\ outcome[h].cause = "zero_content"
        /\ outcome[h].status = 500

\* C7: a request that met a fault is answered exactly once, with status 500
\* and without a response body, and no row of it is in the store.
C7_SingleFailure ==
    \A h \in Handlers :
        (Served(h) /\ outcome[h].cause # "none") =>
            /\ outcome[h].status = 500
            /\ outcome[h].responses = 1
            /\ outcome[h].response = <<>>
            /\ \A p \in AllRows : p.id # req[h].id

C7_Witness ==
    \E h \in Handlers :
        /\ Served(h) /\ outcome[h].cause = "commit"
        /\ InSeq("Persist", stages[h])
        /\ outcome[h].status = 500

\* C8: a fetch_page invocation whose log writes succeed adds exactly one
\* crawl log entry.
C8_OneLogPerFetch ==
    (lastFetch.n > 0 /\ ~lastFetch.logFail) => lastFetch.out.logs = 1

\* The GET was issued and did not bring a 2xx response.
GetFailed == lastFetch.out.get /\ lastFetch.http \in {"non2xx", "transport", "timeout"}

\* C9 as stated: fetch_page raises nothing; it returns None on a failed GET,
\* a raising robots check or a failed log write, and text only for a 2xx.
C9_NoneOnAnyFailure ==
    lastFetch.n > 0 =>
        /\ ~lastFetch.out.raised
        /\ (GetFailed \/ lastFetch.verdict = "raise" \/ lastFetch.logFail) =>
              lastFetch.out.result = "None"
        /\ lastFetch.out.result # "None" => lastFetch.http \in {"ok", "ok_empty"}

\* C9 as amended: fetch_page raises nothing; it returns None on a failed GET,
\* a raising robots check or a robots denial, and the text exactly for a 2xx
\* response of an allowed URL, whether or not the log write failed.
C9_NeverRaises ==
    lastFetch.n > 0 =>
        /\ ~lastFetch.out.raised
        /\ (GetFailed \/ lastFetch.verdict # "allow") =>
              lastFetch.out.result = "None"
        /\ lastFetch.out.result # "None" <=>
              (lastFetch.verdict = "allow" /\ lastFetch.http \in {"ok", "ok_empty"})

C9_Witness ==
    /\ lastFetch.n > 0
    /\ lastFetch.logFail
    /\ lastFetch.verdict = "allow"
    /\ lastFetch.http = "ok"
    /\ lastFetch.out.result = "body"
    /\ lastFetch.out.logs = 0

\* C11: on one WebCrawler at most one robots.txt request is issued per
\* domain, whatever the interleaving of the fetch_page calls.
C11_RobotsFetchedOnce ==
    \A d \in Domains : session.reads[d] <= 1

\* C12: any two GETs that one WebCrawler issues to the same domain start at
\* least CRAWL_DELAY apart, whatever the interleaving of the fetch_page calls.
C12_MinimumSpacing ==
    \A d \in Domains :
        \A i, j \in DOMAIN session.gets[d] :
            i < j => session.gets[d][j] - session.gets[d][i] >= session.delay

\* C13: the fetch_page calls in flight never outnumber
\* MAX_CONCURRENT_REQUESTS, and every slot is either held by a call in
\* flight or free: a call that has ended holds none.
C13_ConcurrencyCeiling ==
    session.open =>
        /\ Cardinality(InFlight(session)) <= session.limit
        /\ session.value >= 0
        /\ session.value + Cardinality(InFlight(session)) = session.limit

C13_Witness ==
    /\ session.open
    /\ Cardinality(InFlight(session)) = session.limit
    /\ \E c \in InFlight(session), b \in Callers :
          /\ session.caller[b].pc = "wait_sem"
          /\ session.caller[b].domain # session.caller[c].domain
    /\ session.lastEnd = "denied"

\* The fetch_page calls crawl_site made for candidate links.
LinkFetches == IF site.fetched = <<>> THEN 0 ELSE Len(site.fetched) - 1

\* C14: crawl_site with max_pages = 3 collects at most 3 page bodies and
\* calls fetch_page for at most 3 candidate links, however many links of the
\* start page qualify and whatever the fetches answer.
C14_CrawlCap ==
    /\ Len(site.pages_content) <= 3
    /\ LinkFetches <= 3

C14_Witness ==
    /\ site.pc = "done"
    /\ Len(site.found) > 3
    /\ Len(site.pages_content) = 3
    /\ LinkFetches = 3

\* C15: within one crawl_site call fetch_page is called at most once per
\* URL.
C15_NoRefetch ==
    \A i, j \in DOMAIN site.fetched :
        i < j => site.fetched[i] # site.fetched[j]

\* The outcome of an applicable provider of the last call.
OutcomeOf(i) == enrichment.outcomes[enrichment.applicable[i]]
\* The deadline elapsed before every applicable provider had completed.
DeadlineElapsed ==
    \E i \in DOMAIN enrichment.applicable : OutcomeOf(i).kind = "slow"
\* The fields that occur in the records and in the provider data.
EnrichFields == {"name", "industry", "website", "linkedin_url", "employee_count"}

\* C16: when the deadline elapses before every qualifying provider has
\* completed, the coordinator returns the input record and an empty source
\* list, also when another provider had already returned a success result.
C16_SharedDeadline ==
    (enrichment.called /\ DeadlineElapsed) =>
        /\ enrichment.out.enriched_data = enrichment.company_data
        /\ enrichment.out.enrichment_sources = <<>>

C16_Witness ==
    /\ enrichment.called
    /\ Len(enrichment.applicable) = 2
    /\ OutcomeOf(1).kind = "ok" /\ OutcomeOf(1).data = [industry |-> Str("Tech")]
    /\ OutcomeOf(2).kind = "slow"
    /\ Get(enrichment.company_data, "industry") = None
    /\ enrichment.out.enriched_data = enrichment.company_data

\* C17: enrich_company_data returns normally, and for every qualifying
\* provider that raised, returned a failure result or did not complete in
\* time, the error list holds an entry that names it.
C17_FaultsInErrorList ==
    enrichment.called =>
        /\ ~enrichment.out.raised
        /\ \A i \in DOMAIN enrichment.applicable :
              OutcomeOf(i).kind \in {"exc", "fail", "slow"} =>
                  \E j \in DOMAIN enrichment.out.enrichment_errors :
                      enrichment.out.enrichment_errors[j][1] =
                          enrichment.applicable[i]

\* C18: when one of two qualifying providers raises and the other returns a
\* success result within the deadline, the merged record holds the non-null
\* fields of the success result, the source list is exactly the successful
\* provider and the error list is exactly one entry, naming the failed one.
C18_PartialFailure ==
    \A i, j \in DOMAIN enrichment.applicable :
        ( /\ enrichment.called
          /\ OutcomeOf(i).kind = "exc"
          /\ OutcomeOf(j).kind = "ok" ) =>
            /\ ~enrichment.out.raised
            /\ \A k \in DOMAIN OutcomeOf(j).data :
                  OutcomeOf(j).data[k] # None =>
                      /\ k \in DOMAIN enrichment.out.enriched_data
                      /\ enrichment.out.enriched_data[k] = OutcomeOf(j).data[k]
            /\ enrichment.out.enrichment_sources = <<enrichment.applicable[j]>>
            /\ Len(enrichment.out.enrichment_errors) = 1
            /\ enrichment.out.enrichment_errors[1][1] = enrichment.applicable[i]

C18_Witness ==
    /\ enrichment.called
    /\ Len(enrichment.applicable) = 2
    /\ OutcomeOf(1).kind = "exc"
    /\ OutcomeOf(2).kind = "ok"
    /\ Get(OutcomeOf(2).data, "employee_count") = Num(50)
    /\ Get(enrichment.out.enriched_data, "employee_count") = Num(50)
    /\ enrichment.out.enrichment_errors = << <<"crunchbase", "boom">> >>

\* The providers of the last call that returned a success result with a
\* non-null value for field k.
Suppliers(k) ==
    {i \in DOMAIN enrichment.applicable :
        /\ OutcomeOf(i).kind = "ok"
        /\ k \in DOMAIN OutcomeOf(i).data
        /\ OutcomeOf(i).data[k] # None}

\* C19: after a call that met its deadline, every field of the merged
\* record holds the non-null value of the (last) success result that
\* supplies one, and the input record's value when none does; a null value
\* and the data of a failure result change nothing.
C19_MergePrecedence ==
    (enrichment.called /\ ~DeadlineElapsed) =>
        \A k \in EnrichFields :
            IF Suppliers(k) = {}
            THEN /\ k \in DOMAIN enrichment.out.enriched_data
                     <=> k \in DOMAIN enrichment.company_data
                 /\ Get(enrichment.out.enriched_data, k)
                     = Get(enrichment.company_data, k)
            ELSE LET last == CHOOSE i \in Suppliers(k) :
                                \A j \in Suppliers(k) : j <= i
                 IN  Get(enrichment.out.enriched_data, k) = OutcomeOf(last).data[k]

C19_Witness ==
    /\ enrichment.called
    /\ Len(enrichment.applicable) = 2
    /\ enrichment.company_data = [name |-> Str("X"), industry |-> Str("Fintech")]
    /\ OutcomeOf(1).kind = "ok" /\ Get(OutcomeOf(1).data, "industry") = None
    /\ OutcomeOf(2).kind = "fail"
    /\ Get(OutcomeOf(2).data, "industry") = Str("Tech")
    /\ enrichment.out.enriched_data =
          [name |-> Str("X"), industry |-> Str("Fintech"),
           employee_count |-> Num(50)]

\* No provider is both enabled and able to enrich the record of the last
\* call.
NoneQualifies ==
    \A p \in {"crunchbase", "linkedin"} :
        ~(enrichment.providers[p].enabled
          /\ can_enrich(p, enrichment.providers[p], enrichment.company_data))

\* C20: when no provider is both enabled and able to enrich the record, no
\* provider is invoked and the call returns, without raising, the input
\* record with an empty source list and an empty error list.
C20_NoProviderQualifies ==
    (enrichment.called /\ NoneQualifies) =>
        /\ enrichment.out.invoked = <<>>
        /\ ~enrichment.out.raised
        /\ enrichment.out.enriched_data = enrichment.company_data
        /\ enrichment.out.enrichment_sources = <<>>
        /\ enrichment.out.enrichment_errors = <<>>

C20_Witness ==
    /\ enrichment.called
    /\ NoneQualifies
    /\ enrichment.providers["crunchbase"].enabled
    /\ enrichment.providers["linkedin"].enabled
    /\ enrichment.providers["linkedin"].api_key
    /\ enrichment.company_data = [website |-> Str("u1")]
    /\ enrichment.out.enriched_data = [website |-> Str("u1")]

\* The pages of the last merge that have a non-null value for field k.
PagesWith(k) ==
    {i \in DOMAIN applied.pages :
        k \in DOMAIN applied.pages[i] /\ applied.pages[i][k] # None}

\* C21: every field of the merged record holds the value of the first page,
\* in crawl order, that has a non-null value for it, and a field that no
\* page has is not in the merged record.
C21_FirstPageWins ==
    applied.fn = "merge" =>
        \A k \in {"name", "industry", "website", "locations", "description"} :
            IF PagesWith(k) = {}
            THEN k \notin DOMAIN applied.out
            ELSE LET first == CHOOSE i \in PagesWith(k) :
                                  \A j \in PagesWith(k) : i <= j
                 IN  /\ k \in DOMAIN applied.out
                     /\ applied.out[k] = applied.pages[first][k]

C21_Witness ==
    /\ applied.fn = "merge"
    /\ Len(applied.pages) = 3
    /\ applied.pages[1] = ExtractedPage(Str("Acme"), None, Lst(<<>>))
    /\ applied.pages[2] = ExtractedPage(Str("About Acme"), Str("Fintech"),
                                        Lst(<<"Austin, TX">>))
    /\ applied.out = [name |-> Str("Acme"), industry |-> Str("Fintech"),
                      website |-> Str("u1"), locations |-> Lst(<<>>)]

\* The merged extracted records that a crawl of the URL can lead to.
MergedRecords(url) ==
    {MergePages(<<>>, [i \in 1..n |-> PageRecord(url, i)]) : n \in 1..max_pages}

\* The row of a run without enrichment over the merged record d.
PlainRow(h, d) ==
    LET completeness == _calculate_completeness_score(d)
        confidence == _calculate_confidence_score(d, <<>>)
    IN  ProfileRow(req[h].id, req[h].url, d, completeness, confidence,
                   <<>>, <<>>,
                   generate_report(d, completeness, confidence, <<>>, <<>>),
                   FALSE)

\* C22: a run whose request has include_enrichment false never enters the
\* Enrich stage; the record it scores, renders and persists is the merged
\* extracted record, and its source list and error list are empty.
C22_NoEnrichment ==
    \A h \in Handlers :
        (pc[h] # "idle" /\ ~req[h].include_enrichment) =>
            /\ pc[h] # "enrich"
            /\ ~InSeq("Enrich", stages[h])
            /\ pc[h] \in {"score", "persist"} =>
                  /\ work[h].data \in MergedRecords(req[h].url)
                  /\ work[h].sources = <<>>
                  /\ work[h].errors = <<>>
            /\ pc[h] = "persist" =>
                  LET row == PlainRow(h, work[h].data)
                  IN  /\ work[h].completeness = row.completeness_score
                      /\ work[h].confidence = row.confidence_score
                      /\ work[h].report = row.markdown_report
            /\ \A p \in pending[h] \cup RowsOf(req[h].id) :
                  /\ \E d \in MergedRecords(req[h].url) : p = PlainRow(h, d)
                  /\ p.enrichment_sources = <<>>
                  /\ p.enrichment_errors = <<>>
                  /\ pc[h] \in {"commit", "done"} =>
                        outcome[h].response = _profile_to_response(p)

C22_Witness ==
    \E h \in Handlers :
        /\ Served(h) /\ outcome[h].status = 200
        /\ ~req[h].include_enrichment
        /\ stages[h] = <<"Crawl", "Extract", "Score", "Report", "Persist",
                         "Respond">>
        /\ \E p \in RowsOf(req[h].id) :
              /\ p = PlainRow(h, MergePages(<<>>,
                         [i \in 1..2 |-> PageRecord(req[h].url, i)]))
              /\ p.industry = Str("Fintech")

\* A populated value: a non-blank string, a positive number, a non-empty
\* list.
IsPopulated(v) ==
    \/ v.t = "str" /\ v.v \notin {"", " "}
    \/ v.t = "num" /\ v.v > 0
    \/ v.t = "list" /\ v.v # <<>>
PopulatedFields(d) == {f \in DOMAIN d : IsPopulated(d[f])}

\* C23: when every field populated in record A is populated in record B,
\* the completeness of A is at most the completeness of B.
C23_Monotone ==
    (applied.fn = "completeness"
        /\ PopulatedFields(applied.a) \subseteq PopulatedFields(applied.b)) =>
            applied.score_a <= applied.score_b

C23_Witness ==
    /\ applied.fn = "completeness"
    /\ PopulatedFields(applied.a) = {"name", "tech_stack"}
    /\ PopulatedFields(applied.b) = {"name", "tech_stack", "founded_year"}
    /\ DOMAIN applied.b \subseteq DOMAIN applied.a
    /\ DOMAIN applied.a # DOMAIN applied.b
    /\ applied.score_a = 25
    /\ applied.score_b = 30

\* The weight of a set of checklist fields, in hundredths.
RECURSIVE WeightOf(_)
WeightOf(S) ==
    IF S = {} THEN 0
    ELSE LET f == CHOOSE x \in S : TRUE
         IN  FieldWeights[f] + WeightOf(S \ {f})

\* The completeness claimed for a record with the score s.
CompletenessAsClaimed(d, s) ==
    LET populated == PopulatedFields(d) \cap ChecklistFields
    IN  /\ s = (WeightOf(populated) * 100) \div WeightOf(ChecklistFields)
        /\ 0 <= s /\ s <= 100
        /\ populated = ChecklistFields => s = 100
        /\ DOMAIN d = {} => s = 0
        /\ s = _calculate_completeness_score(
                    [f \in PopulatedFields(d) |-> d[f]])

\* C24: the completeness score is the weight of the populated checklist
\* fields over the weight of the eleven fields, which is 1.00; it lies
\* between 0 and 1, is 1 when all eleven are populated and 0 for the empty
\* record, and a blank string, an empty list or a non-positive number
\* counts like a missing field.
C24_CompletenessBounds ==
    applied.fn = "completeness" =>
        /\ Cardinality(ChecklistFields) = 11
        /\ WeightOf(ChecklistFields) = 100
        /\ CompletenessAsClaimed(applied.a, applied.score_a)
        /\ CompletenessAsClaimed(applied.b, applied.score_b)

C24_Witness ==
    /\ applied.fn = "completeness"
    /\ DOMAIN applied.a = ScoreFields
    /\ PopulatedFields(applied.a) = {}
    /\ applied.score_a = 0
    /\ PopulatedFields(applied.b) = ChecklistFields
    /\ applied.score_b = 100

\* The bounds of the confidence score and of its two bonuses.
ConfidenceBounds ==
    /\ 60 <= applied.score /\ applied.score <= 100
    /\ applied.richness <= 20
    /\ applied.enrichment <= 20

\* C25 as stated: the confidence lies between 0.6 and 1.0, neither bonus
\* exceeds 0.2, and a record without a populated field (non-blank string,
\* positive number, non-empty list) and without sources scores exactly 0.6.
C25_ConfidenceBounds ==
    applied.fn = "confidence" =>
        /\ ConfidenceBounds
        /\ (PopulatedFields(applied.company_data) = {}
              /\ applied.enrichment_sources = <<>>) => applied.score = 60

\* C25 as amended: the confidence lies between 0.6 and 1.0, neither bonus
\* exceeds 0.2, and a record without a value other than None and without
\* sources scores exactly 0.6.
C25_ConfidenceBoundsNonNull ==
    applied.fn = "confidence" =>
        /\ ConfidenceBounds
        /\ ((\A f \in DOMAIN applied.company_data :
                  applied.company_data[f] = None)
              /\ applied.enrichment_sources = <<>>) => applied.score = 60

C25_Witness ==
    /\ applied.fn = "confidence"
    /\ DOMAIN applied.company_data = ScoreFields
    /\ \A f \in ScoreFields : applied.company_data[f] = None
    /\ applied.enrichment_sources = <<>>
    /\ applied.score = 60

\* The first match over the four phrasings in listed order: the first
\* mention, in the text, of the first listed phrasing that the text holds.
FirstMatch(text) ==
    LET held == {i \in DOMAIN founded_patterns :
                    \E j \in DOMAIN text : text[j].phrase = founded_patterns[i]}
        p == CHOOSE i \in held : \A k \in held : i <= k
        at == CHOOSE j \in DOMAIN text :
                  /\ text[j].phrase = founded_patterns[p]
                  /\ \A k \in DOMAIN text :
                        text[k].phrase = founded_patterns[p] => j <= k
    IN  text[at].year

\* C26: the founded year is the first match over the four phrasings in
\* listed order when that year lies in 1800..2025, and the field is absent
\* when there is no match or when that first match is out of the range.
C26_FoundedYear ==
    applied.fn = "founded_year" =>
        IF applied.text = <<>> THEN applied.out = None
        ELSE LET year == FirstMatch(applied.text)
             IN  IF 1800 <= year /\ year <= 2025
                 THEN applied.out = Num(year)
                 ELSE applied.out = None

\* The first about/overview element with at least 100 characters.
FirstRegion(elements) ==
    LET long == {i \in DOMAIN elements : elements[i].len >= 100}
    IN  IF long = {} THEN 0 ELSE CHOOSE i \in long : \A k \in long : i <= k

\* C27: the description is the meta description exactly when that has at
\* least 50 characters; otherwise the Open-Graph description when that has
\* at least 50 characters; otherwise the first about/overview element with
\* at least 100 characters, cut to 500 characters; otherwise it is absent.
C27_DescriptionThresholds ==
    applied.fn = "description" =>
        LET out == applied.out
            r == FirstRegion(applied.elements)
        IN  IF applied.meta.present /\ applied.meta.len >= 50
            THEN out # None /\ out.src = "meta" /\ out.len = applied.meta.len
            ELSE IF applied.og.present /\ applied.og.len >= 50
            THEN out # None /\ out.src = "og" /\ out.len = applied.og.len
            ELSE IF r # 0
            THEN /\ out # None /\ out.src = "about" /\ out.index = r
                 /\ out.len <= 500
            ELSE out = None

\* C29: two calls of extract_info on the same page and base URL, by the
\* same extractor or by different ones, return equal records, the order of
\* the list fields included.
C29_ExtractorPure ==
    applied.fn = "extract_info" => applied.first = applied.second

\* The sections of a report, in their order, and the fields of the
\* optional ones.
SectionOrder ==
    <<"header", "Executive Summary", "Company Overview", "Size & Funding",
      "Location", "Technology & Culture", "Social Presence",
      "Analysis Quality", "footer">>
SectionFields ==
    [s \in {"Company Overview", "Size & Funding", "Location",
            "Technology & Culture", "Social Presence"} |->
        CASE s = "Company Overview" ->
                {"description", "industry", "founded_year", "website"}
          [] s = "Size & Funding" ->
                {"employee_count", "employee_count_range", "funding_stage",
                 "total_funding"}
          [] s = "Location" -> {"headquarters", "locations"}
          [] s = "Technology & Culture" ->
                {"tech_stack", "benefits", "culture_keywords"}
          [] s = "Social Presence" -> {"linkedin_url", "twitter_url"}]

\* The place of a section in the order.
PlaceOf(s) == CHOOSE i \in DOMAIN SectionOrder : SectionOrder[i] = s

\* C28: the parts of a report stand in the fixed order, from the header to
\* the footer; the heading of an optional section stands there at most
\* once, only when one of the section's fields is populated, and a line of
\* content follows it.
C28_ReportStructure ==
    applied.fn = "report" =>
        LET lines == applied.lines
            outline == Outline(lines)
        IN  /\ \A i \in DOMAIN outline : InSeq(outline[i], SectionOrder)
            /\ \A i, j \in DOMAIN outline :
                  i < j => PlaceOf(outline[i]) < PlaceOf(outline[j])
            /\ outline[1] = "header" /\ outline[2] = "Executive Summary"
            /\ outline[Len(outline) - 1] = "Analysis Quality"
            /\ outline[Len(outline)] = "footer"
            /\ \A i \in DOMAIN lines :
                  lines[i].kind = "h2" =>
                      /\ i < Len(lines) /\ lines[i + 1].kind = "line"
                      /\ lines[i].text \in DOMAIN SectionFields =>
                            \E f \in SectionFields[lines[i].text] :
                                f \in PopulatedFields(applied.company_data)

C28_Witness ==
    /\ applied.fn = "report"
    /\ PopulatedFields(applied.company_data)
          = {"benefits", "culture_keywords", "twitter_url"}
    /\ DOMAIN applied.company_data = ReportFields
    /\ Outline(applied.lines)
          = <<"header", "Executive Summary", "Technology & Culture",
              "Social Presence", "Analysis Quality", "footer">>

IsPrefix(p, q) == Len(p) <= Len(q) /\ \A i \in DOMAIN p : p[i] = q[i]

\* The stages of a run that is answered from the stored row.
StagesOfCacheHit == <<"Lookup", "Respond">>

\* The stages of every run are executed in the order of the pipeline.
StagesInOrder ==
    \A h \in Handlers :
        /\ \/ IsPrefix(stages[h], StagesOfRun(h))
           \/ ~req[h].force_refresh /\ stages[h] = StagesOfCacheHit
        /\ (Served(h) /\ outcome[h].status = 200) =>
              IF InSeq("Crawl", stages[h])
              THEN stages[h] = StagesOfRun(h)
              ELSE stages[h] = StagesOfCacheHit /\ req[h].hadRow

\* A step of a run that has met a fault executes no stage.
FaultIsTerminal ==
    \A h \in Handlers :
        outcome[h].status = 500 =>
            /\ pc[h] = "done"
            /\ stages'[h] = stages[h] \/ (pc'[h] = "idle" /\ stages'[h] = <<>>)

\* C30: a run that misses the cache and returns normally has executed
\* Lookup (unless force_refresh), Crawl, Extract, Enrich (when requested),
\* Score, Report, Persist and Respond in this order; a cache hit goes from
\* Lookup to Respond; after a fault no further stage is executed.
C30_StageOrder == []StagesInOrder /\ [][FaultIsTerminal]_vars

C30_Witness ==
    \E h \in Handlers :
        /\ Served(h) /\ outcome[h].status = 200
        /\ ~req[h].force_refresh /\ ~req[h].hadRow
        /\ stages[h] = <<"Lookup", "Crawl", "Extract", "Enrich", "Score",
                         "Report", "Persist", "Respond">>

\* ---- C31
\* C31: crawl_site fetches the start URL before any other URL, and when
\* that fetch yields no body (failure, robots denial or empty body) it
\* calls fetch_page for no other URL and returns the empty sequence.
C31_StartFirst ==
    /\ site.fetched # <<>> => Head(site.fetched) = "s"
    /\ (site.results # <<>> /\ ~site.results[1]) =>
          /\ site.fetched = <<"s">>
          /\ site.pages_content = <<>>
          /\ site.pc = "done"

\* The start page brought nothing although the page at the start URL holds
\* links that qualify, and crawl_site is about to return.
C31_Witness ==
    /\ site.pc = "done"
    /\ site.results = <<FALSE>>
    /\ site.found # <<>>

\* ---- C32
\* q is p with some elements left out.
RECURSIVE IsSubSeq(_, _)
IsSubSeq(q, p) ==
    IF q = <<>> THEN TRUE
    ELSE IF p = <<>> THEN FALSE
    ELSE IF Head(q) = Head(p) THEN IsSubSeq(Tail(q), Tail(p))
    ELSE IsSubSeq(q, Tail(p))

\* The URLs whose fetch has returned with content, in the order fetched.
RECURSIVE Successful(_, _)
Successful(fetched, results) ==
    IF results = <<>> THEN <<>>
    ELSE IF Head(results)
         THEN <<Head(fetched)>> \o Successful(Tail(fetched), Tail(results))
         ELSE Successful(Tail(fetched), Tail(results))

\* C32: within one crawl_site run at most one page fetch is in flight at
\* any time, the fetches are made in document order (the start page, then
\* the candidate links in the order found), and the returned sequence lists
\* the bodies of the successful fetches in that order, without the failed.
C32_Sequential ==
    /\ Len(site.inflight) <= 1
    /\ site.fetched # <<>> =>
          /\ Head(site.fetched) = "s"
          /\ IsSubSeq(Tail(site.fetched), Candidates(site.hrefs, "s"))
    /\ Len(site.results) = Len(site.fetched) - Len(site.inflight)
    /\ site.pages_content = Successful(site.fetched, site.results)

\* A crawl of three fetches of which the second failed is about to return.
C32_Witness ==
    /\ site.pc = "done"
    /\ site.results = <<TRUE, FALSE, TRUE>>
    /\ Len(site.pages_content) = 2

\* ---- C33
\* The path of the link holds one of the denylisted fragments.
Denylisted(url) ==
    \E piece \in SiteLinks[url].path :
        \E k \in DOMAIN avoid_patterns : Lower(piece) = avoid_patterns[k]

\* The elements of a sequence.
Range(q) == {q[i] : i \in DOMAIN q}

\* C33: every URL crawl_site fetches other than the start URL has the
\* network location of the start URL and a path with none of the
\* denylisted fragments; a link to another domain or to a denylisted path
\* is never fetched.
C33_SameSiteOnly ==
    \A i \in 2..Len(site.fetched) :
        /\ SiteLinks[site.fetched[i]].netloc = SiteLinks["s"].netloc
        /\ ~Denylisted(site.fetched[i])

\* A start page with a link to another domain and a link to a denylisted
\* path has been crawled, links included.
C33_Witness ==
    /\ site.pc = "done"
    /\ Len(site.fetched) >= 2
    /\ \E u \in Range(site.hrefs) : SiteLinks[u].netloc # SiteLinks["s"].netloc
    /\ \E u \in Range(site.hrefs) : Denylisted(u)

\* ---- C34
\* C34: when the robots policy denies the URL, fetch_page issues no GET,
\* adds (its log write succeeding) one crawl log entry with
\* robots_txt_allowed false, increments the robots-block counter, returns
\* None without raising, and does not set the last-request instant of the
\* domain.
C34_DenialIsNormal ==
    (lastFetch.n > 0 /\ lastFetch.verdict = "deny") =>
        /\ ~lastFetch.out.get
        /\ ~lastFetch.out.stamped
        /\ lastFetch.out.blocked
        /\ lastFetch.out.result = "None"
        /\ ~lastFetch.out.raised
        /\ ~lastFetch.logFail =>
              lastFetch.out.logs = 1 /\ lastFetch.out.flags = {FALSE}

\* A denied fetch whose log entry was written, on a site that would have
\* answered the GET.
C34_Witness ==
    /\ lastFetch.n > 0
    /\ lastFetch.verdict = "deny"
    /\ lastFetch.http = "ok"
    /\ ~lastFetch.logFail
    /\ lastFetch.out.flags = {FALSE}

\* ---- C35
\* The record has a non-empty value under key k.
NonEmptyField(d, k) == k \in DOMAIN d /\ d[k] # None /\ d[k] # Str("")

\* Crunchbase is enabled, has an API key, and the record has a non-empty
\* name or website.
CrunchbaseEligible ==
    /\ enrichment.providers["crunchbase"].enabled
    /\ enrichment.providers["crunchbase"].api_key
    /\ \/ NonEmptyField(enrichment.company_data, "name")
       \/ NonEmptyField(enrichment.company_data, "website")

\* C35: enrich of a provider is invoked only if the provider is enabled and
\* its can_enrich is true for the record, and can_enrich of Crunchbase is
\* true exactly when it is enabled, has a non-empty API key and the record
\* has a non-empty name or website.
C35_Eligibility ==
    enrichment.called =>
        /\ \A i \in DOMAIN enrichment.out.invoked :
              LET p == enrichment.out.invoked[i]
              IN  /\ enrichment.providers[p].enabled
                  /\ can_enrich(p, enrichment.providers[p],
                                enrichment.company_data)
        /\ can_enrich("crunchbase", enrichment.providers["crunchbase"],
                      enrichment.company_data) <=> CrunchbaseEligible
        /\ (\E i \in DOMAIN enrichment.out.invoked :
               enrichment.out.invoked[i] = "crunchbase") <=> CrunchbaseEligible

\* Crunchbase, enabled but without a key, was left out for a record with a
\* name while LinkedIn was invoked.
C35_Witness ==
    /\ enrichment.called
    /\ enrichment.providers["crunchbase"].enabled
    /\ ~enrichment.providers["crunchbase"].api_key
    /\ NonEmptyField(enrichment.company_data, "name")
    /\ enrichment.out.invoked = <<"linkedin">>

\* ---- C36
\* The providers of the call whose enrich returned a success result, and
\* those that left an error, in the order crunchbase, linkedin.
Succeeded ==
    SelectSeq(Providers, LAMBDA p : enrichment.outcomes[p].kind = "ok")

Erred ==
    SelectSeq(Providers,
              LAMBDA p : \/ enrichment.outcomes[p].kind = "exc"
                         \/ /\ enrichment.outcomes[p].kind = "fail"
                            /\ enrichment.outcomes[p].msg \notin {None, Str("")})

\* Provider p succeeded and supplied a non-null value for field k.
Supplies(p, k) ==
    /\ enrichment.outcomes[p].kind = "ok"
    /\ k \in DOMAIN enrichment.outcomes[p].data
    /\ enrichment.outcomes[p].data[k] # None

\* The value of field k after the results were applied in provider order.
InProviderOrder(k) ==
    IF Supplies("linkedin", k) THEN enrichment.outcomes["linkedin"].data[k]
    ELSE IF Supplies("crunchbase", k)
         THEN enrichment.outcomes["crunchbase"].data[k]
         ELSE enrichment.company_data[k]

\* C36: the merged record, the source list and the error list of a call are
\* those of applying the provider results in the order crunchbase, linkedin,
\* the later provider winning a field both supply, whatever the order in
\* which the provider tasks completed.
C36_MergeDeterministic ==
    (enrichment.called /\ ~DeadlineElapsed) =>
        /\ enrichment.out.enrichment_sources = Succeeded
        /\ enrichment.out.enrichment_errors =
              [i \in DOMAIN Erred |->
                  <<Erred[i], enrichment.outcomes[Erred[i]].msg.v>>]
        /\ DOMAIN enrichment.out.enriched_data =
              DOMAIN enrichment.company_data
              \cup {k \in EnrichFields : \E p \in {"crunchbase", "linkedin"} :
                                             Supplies(p, k)}
        /\ \A k \in DOMAIN enrichment.out.enriched_data :
              enrichment.out.enriched_data[k] = InProviderOrder(k)

\* LinkedIn completed before Crunchbase, both supplied an industry, and the
\* industry of LinkedIn is in the merged record.
C36_Witness ==
    /\ enrichment.called
    /\ enrichment.completion = <<"linkedin", "crunchbase">>
    /\ enrichment.outcomes["crunchbase"].data = [industry |-> Str("Tech")]
    /\ enrichment.outcomes["linkedin"].data = [industry |-> Str("Bank")]
    /\ enrichment.outcomes["crunchbase"].kind = "ok"
    /\ enrichment.outcomes["linkedin"].kind = "ok"
    /\ enrichment.out.enrichment_sources = <<"crunchbase", "linkedin">>
    /\ enrichment.out.enriched_data["industry"] = Str("Bank")

\* ---- C37
\* C37: a provider is in the enrichment source list only if it returned a
\* success result that contributed at least one non-null field.
C37_SourcesContributed ==
    enrichment.called =>
        \A i \in DOMAIN enrichment.out.enrichment_sources :
            \E k \in EnrichFields :
                Supplies(enrichment.out.enrichment_sources[i], k)

\* ---- C38
\* C38: a request without force_refresh for a URL that has a stored row,
\* whose lookup does not fail, runs no stage but Lookup and Respond and
\* answers with that row, whatever its include_enrichment flag and whatever
\* flag the row was produced with.
C38_CacheByUrlOnly ==
    \A h \in Handlers :
        ( /\ req[h].id > 0
          /\ ~req[h].force_refresh /\ req[h].hadRow
          /\ outcome[h].cause = "none" ) =>
            /\ stages[h] = <<"Lookup", "Respond">>
            /\ \E p \in store :
                  /\ p.source_url = req[h].url
                  /\ outcome[h].response = _profile_to_response(p)

\* A request with include_enrichment was answered with a row that had been
\* produced without enrichment, its source list empty.
C38_Witness ==
    \E h \in Handlers :
        /\ Served(h) /\ outcome[h].status = 200
        /\ ~req[h].force_refresh /\ req[h].hadRow
        /\ req[h].include_enrichment
        /\ outcome[h].response.enrichment_sources = <<>>
        /\ \E p \in store :
              /\ p.source_url = req[h].url
              /\ ~p.enrichment_enabled
              /\ outcome[h].response = _profile_to_response(p)

\* ---- C39
\* C39: the crawl log entries written by the fetches of a request are in the
\* store if and only if the request succeeded: all of them after a 200,
\* none of them before the commit and after a failed request.
C39_LogsShareFate ==
    /\ (txn.pc = "done" /\ txn.status = 200) => txn.stored_logs = txn.logged
    /\ ~(txn.pc = "done" /\ txn.status = 200) => txn.stored_logs = 0

\* A request whose fetches wrote log entries failed with the zero-content
\* fault, and none of the entries is in the store.
C39_Witness ==
    /\ txn.pc = "done"
    /\ txn.status = 500
    /\ txn.cause = "zero_content"
    /\ txn.logged > 0
    /\ txn.stored_logs = 0

\* ---- C40
\* C40: every request increments exactly one of the two outcome counters,
\* ANALYSIS_SUCCESS_COUNT if and only if it answers with the response and
\* its rows are committed, ANALYSIS_ERROR_COUNT if and only if it answers
\* with the failure; no request increments both.
C40_OneOutcomeCounter ==
    txn.pc = "done" =>
        /\ txn.success + txn.error = 1
        /\ txn.success = 1 <=> txn.status = 200
        /\ txn.error = 1 <=> txn.status = 500

====
